---------------------------- MODULE Spec2Model ----------------------------
(***************************************************************************)
(* A model of core/excel_utils.py of marketing_tool: the column-label      *)
(* helper _col_letter, extract_sheet_text (row records, flat text and the  *)
(* header-less Markdown table), the choice of the reader's engine and      *)
(* export_sheet_pdf; and of the loading of core/generate_script_json.py.   *)
(*                                                                         *)
(* Python strings are modelled as sequences of one-character strings, so   *)
(* that len, strip, replace, ljust, rjust and join are computed and not    *)
(* assumed.  A cell value is a record [k, s, n]:                           *)
(*    k = "nan"    a missing cell (pandas NaN)                             *)
(*    k = "str"    a text cell, s its characters                           *)
(*    k = "int"    an integer, n its value                                 *)
(*    k = "float"  a float, n its value in tenths (205 is 20.5, 100 is     *)
(*                 10.0)                                                   *)
(*    k = "inf"    the float inf (n = 1) or -inf (n = -1)                  *)
(***************************************************************************)
EXTENDS Integers, Sequences, FiniteSets, TLC

VARIABLES
    \* _col_letter(idx): the loop of lines 139-148
    idx,        \* the argument
    n,          \* the local n
    s,          \* the local s (the label built so far)
    lpc,        \* "idle" | "loop" | "done"
    \* extract_sheet_text, lines 134-239, and export_sheet_pdf, lines 250-273
    pc,         \* "idle" | "read" | "rows" | "markdown" | "return" | "done" |
                \* "raised" | "export_read" | "export_write" | "export_done" |
                \* "export_raised"
    df,         \* the DataFrame read by pd.read_excel
    column_labels,
    rows,
    flat,
    markdown,
    result,     \* the returned value
    \* the arguments and the surroundings of a call
    excel_path, \* the argument excel_path, a string
    sheet_name, \* the argument sheet_name
    disk,       \* the file system: the file at excel_path and the file at
                \* output_pdf
    engine,     \* the local engine
    err,        \* the exception the call has raised, "none" when none
    reads,      \* the number of pd.read_excel calls made
    \* loading core/generate_script_json.py
    environ,    \* the names set in os.environ
    src_line,   \* the logical line the compiler is at
    indents,    \* the compiler's stack of indentation levels
    module,     \* "unloaded" | "compiling" | "loaded" | "IndentationError"
    requests,   \* the number of chat-completion requests sent
    \* generate_audio_from_script, core/generate_audio.py lines 14-50
    now,        \* the clock, in ticks (TicksPerSecond of them in a second)
    tts_env,    \* OPENAI_TTS_API_KEY and OPENAI_TTS_API_BASE are both set
    voice,      \* VOICE_OUTPUT_FOLDER: whether it exists, and its files
    posts,      \* the scripts the process has sent to the TTS service
    audio_log,  \* the calls the process has made, each with its outcome
    \* add_tts_to_paragraphs, generate_from_image.py lines 74-80
    script_data, \* the dict passed in: its identity and its paragraphs
    ti,         \* the index of the paragraph the for loop is at
    tts_pc,     \* "idle" | "loop" | "returned" | "raised"
    tts_ret,    \* the identity of the returned dict, 0 before the return
    \* generate_video_for_paragraphs, core/generate_video.py lines 40-76
    text_audio_mapping, \* the paragraphs of the argument
    video_out,  \* the argument output_path
    video_path, \* the local output_path after lines 42-44
    vi,         \* the index of the paragraph the for loop is at
    clips,      \* the local clips: for each clip its paragraph and its audio
    videos,     \* the videos the process has written, each with its clips
    video_pc,   \* "idle" | "start" | "loop" | "end" | "returned" | "raised"
    video_ret,  \* the returned path, NoPath before the return
    \* runs of main, generate_from_image.py lines 94-191
    args,       \* image_path, pdf_path, excel_path and sheet_name of the runs
    today,      \* the date, in days
    run,        \* the number of the run
    main_pc,    \* "start" | "prompt" | "script" | "parse" | "tts" |
                \* "tts_call" | "video" | "video_call" | "done" | "raised"
    main_err,   \* the exception the run has ended with, "none" when none
    events,     \* what the run has done so far, in order
    suffix,     \* the local suffix
    script_json, \* the local script_json
    script_files, \* the script JSON files on disk, by date and suffix
    prompt_files, \* the files written under output/prompts
    last_run,   \* the run before this one: its date, whether it saved a
                \* response of the LLM, and whether it saved the script with
                \* the audio paths it had generated
    at_start    \* the script JSON files when the run started

labelVars == <<idx, n, s, lpc>>
extractVars == <<pc, df, column_labels, rows, flat, markdown, result>>
callVars == <<excel_path, sheet_name, disk, engine, err, reads>>
openaiVars == <<environ, src_line, indents, module, requests>>
audioVars == <<now, tts_env, voice, posts, audio_log>>
ttsVars == <<script_data, ti, tts_pc, tts_ret>>
videoVars ==
    <<text_audio_mapping, video_out, video_path, vi, clips, videos, video_pc,
      video_ret>>
mainVars ==
    <<args, today, run, main_pc, main_err, events, suffix, script_json,
      script_files, prompt_files, last_run, at_start>>
pipelineVars == <<audioVars, ttsVars, videoVars, mainVars>>

vars == <<labelVars, extractVars, callVars, openaiVars, pipelineVars>>

---------------------------------------------------------------------------
(* Bounds of the model. *)

\* column indices 0..MaxIdx are labelled
MaxIdx == 730
\* a sheet has at most MaxCells cells (rows * columns)
MaxCells == 4
\* a sheet with non-finite floats has at most MaxNonFiniteCells cells
MaxNonFiniteCells == 3
\* the clock runs from 0 to MaxClock ticks
MaxClock == 3
\* at most MaxCalls calls of generate_audio_from_script are made in a row
MaxCalls == 3
\* a script has at most MaxParas paragraphs
MaxParas == 2
\* main is run at most MaxRuns times
MaxRuns == 2

\* the ticks of the clock in one second
TicksPerSecond == 2

---------------------------------------------------------------------------
(* Characters and Python string operations. *)

\* the extensions of lines 15 and 17
XLSX == <<".", "x", "l", "s", "x">>
XLSM == <<".", "x", "l", "s", "m">>
XLS == <<".", "x", "l", "s">>

LF == "\n"
CR == "\r"
SP == " "
PIPE == "|"
BACKSLASH == "\\"

Letters ==
    <<"A", "B", "C", "D", "E", "F", "G", "H", "I", "J", "K", "L", "M",
      "N", "O", "P", "Q", "R", "S", "T", "U", "V", "W", "X", "Y", "Z">>

\* chr(ord('A') + r)
ChrA(r) == Letters[r + 1]

DigitChars == <<"0", "1", "2", "3", "4", "5", "6", "7", "8", "9">>

RECURSIVE NatStr(_)
\* str(v) of a non-negative int
NatStr(v) ==
    IF v < 10 THEN <<DigitChars[v + 1]>>
    ELSE NatStr(v \div 10) \o <<DigitChars[(v % 10) + 1]>>

\* str(v) of an int
IntStr(v) == IF v < 0 THEN <<"-">> \o NatStr(-v) ELSE NatStr(v)

\* int(value) of a float given in tenths: truncation toward zero
FloatToInt(t) == IF t < 0 THEN -((-t) \div 10) ELSE t \div 10

\* str(v) of a finite float given in tenths: 100 -> "10.0", 205 -> "20.5"
FloatStr(t) ==
    LET a == IF t < 0 THEN -t ELSE t
    IN  (IF t < 0 THEN <<"-">> ELSE <<>>)
        \o NatStr(a \div 10) \o <<".">> \o <<DigitChars[(a % 10) + 1]>>

\* the characters str.strip() removes (those the model's cells can hold)
Whitespace == {SP, LF, CR}

RECURSIVE LStrip(_)
LStrip(t) ==
    IF t = <<>> THEN <<>>
    ELSE IF Head(t) \in Whitespace THEN LStrip(Tail(t)) ELSE t

RECURSIVE RStrip(_)
RStrip(t) ==
    IF t = <<>> THEN <<>>
    ELSE IF t[Len(t)] \in Whitespace THEN RStrip(SubSeq(t, 1, Len(t) - 1))
    ELSE t

\* str.strip()
Strip(t) == RStrip(LStrip(t))

\* t[i:].startswith(old)
StartsWithAt(t, i, old) ==
    /\ i + Len(old) - 1 <= Len(t)
    /\ \A j \in 1..Len(old) : t[i + j - 1] = old[j]

RECURSIVE ReplaceFrom(_, _, _, _)
ReplaceFrom(t, i, old, new) ==
    IF i > Len(t) THEN <<>>
    ELSE IF StartsWithAt(t, i, old)
         THEN new \o ReplaceFrom(t, i + Len(old), old, new)
         ELSE <<t[i]>> \o ReplaceFrom(t, i + 1, old, new)

\* str.replace(old, new), old non-empty: leftmost non-overlapping occurrences
Replace(t, old, new) == ReplaceFrom(t, 1, old, new)

RECURSIVE Repeat(_, _)
\* c * k  (the empty string for k <= 0)
Repeat(c, k) == IF k <= 0 THEN <<>> ELSE <<c>> \o Repeat(c, k - 1)

\* str.ljust(w) and str.rjust(w): never truncate
LJust(t, w) == t \o Repeat(SP, w - Len(t))
RJust(t, w) == Repeat(SP, w - Len(t)) \o t

RECURSIVE Join(_, _)
\* sep.join(parts)
Join(sep, parts) ==
    IF parts = <<>> THEN <<>>
    ELSE IF Len(parts) = 1 THEN parts[1]
    ELSE parts[1] \o sep \o Join(sep, Tail(parts))

Max(a, b) == IF a >= b THEN a ELSE b

---------------------------------------------------------------------------
(* _col_letter, lines 139-148: one iteration of its while loop. *)

\* the iteration without the "n -= 1" of line 147 (plain base 26)
ColLetterIterNoDec(n0, s0) ==
    LET q == n0 \div 26
        r == n0 % 26
    IN  [n |-> q, s |-> <<ChrA(r)>> \o s0, done |-> (q = 0)]

ColLetterIter(n0, s0) ==
    LET q == n0 \div 26
        r == n0 % 26
    IN  [n |-> IF q = 0 THEN q ELSE q - 1,
         s |-> <<ChrA(r)>> \o s0,
         done |-> (q = 0)]

RECURSIVE ColLetterRun(_, _)
ColLetterRun(n0, s0) ==
    LET it == ColLetterIter(n0, s0)
    IN  IF it.done THEN it.s ELSE ColLetterRun(it.n, it.s)

\* _col_letter(i): the loop run to its break
ColLetter(i) == ColLetterRun(i, <<>>)

---------------------------------------------------------------------------
(* Cell values and the DataFrame pd.read_excel(..., header=None) returns,  *)
(* line 136.                                                               *)

NaN == [k |-> "nan", s |-> <<>>, n |-> 0]
None == [k |-> "none", s |-> <<>>, n |-> 0]
StrVal(t) == [k |-> "str", s |-> t, n |-> 0]
IntVal(v) == [k |-> "int", s |-> <<>>, n |-> v]
\* a float, given in tenths
FloatVal(t) == [k |-> "float", s |-> <<>>, n |-> t]
\* the floats inf and -inf
PosInf == [k |-> "inf", s |-> <<>>, n |-> 1]
NegInf == [k |-> "inf", s |-> <<>>, n |-> -1]

\* The cells a sheet of the model can hold, as the Excel reader hands them
\* to pandas: a blank, a text, an integer (the readers return an integral
\* number as int) or a non-integral float.
TextCells ==
    { <<"H", "i">>,
      <<SP, "H", "i">>,
      <<"a", PIPE, "b", LF, "c">>,
      <<CR, CR, LF>> }

SheetCells ==
    {NaN} \cup {StrVal(t) : t \in TextCells} \cup {IntVal(10)} \cup {FloatVal(205)}

\* the sheets of the model: the empty sheet and every R x C sheet, R, C >= 1,
\* of at most MaxCells cells; a sheet is the sequence of its rows
Shapes ==
    {<<0, 0>>} \cup
    {sh \in (1..MaxCells) \X (1..MaxCells) : sh[1] * sh[2] <= MaxCells}

Sheets ==
    UNION {[1..sh[1] -> [1..sh[2] -> SheetCells]] : sh \in Shapes}

\* sheets with non-finite floats among their cells, of at most
\* MaxNonFiniteCells cells
NonFiniteCells == {NaN, PosInf, NegInf, IntVal(10), StrVal(<<"H", "i">>)}

NonFiniteShapes ==
    {sh \in (1..MaxNonFiniteCells) \X (1..MaxNonFiniteCells) :
        sh[1] * sh[2] <= MaxNonFiniteCells}

NonFiniteSheets ==
    UNION {[1..sh[1] -> [1..sh[2] -> NonFiniteCells]] : sh \in NonFiniteShapes}

NRows(g) == Len(g)
NCols(g) == IF Len(g) = 0 THEN 0 ELSE Len(g[1])

\* the dtype pandas infers for column j of the sheet: object when it holds a
\* text, int64 when every cell is an integer, float64 otherwise (numbers
\* with a blank or a float among them, or blanks only)
ColDtype(g, j) ==
    IF \E i \in 1..NRows(g) : g[i][j].k = "str" THEN "object"
    ELSE IF \A i \in 1..NRows(g) : g[i][j].k = "int" THEN "int64"
    ELSE "float64"

\* an int widened to float (a value of a float64 array)
AsFloat(v) == IF v.k = "int" THEN FloatVal(v.n * 10) ELSE v

\* pd.read_excel(excel_path, sheet_name=..., header=None)
ReadExcelDf(g) ==
    LET dt == [j \in 1..NCols(g) |-> ColDtype(g, j)]
    IN  [nrows |-> NRows(g),
         ncols |-> NCols(g),
         dtypes |-> dt,
         data |-> [i \in 1..NRows(g) |->
                    [j \in 1..NCols(g) |->
                       IF dt[j] = "float64" THEN AsFloat(g[i][j])
                       ELSE g[i][j]]]]

NoDf == [nrows |-> 0, ncols |-> 0, dtypes |-> <<>>, data |-> <<>>]

\* df[col].tolist()
ColumnList(d, j) == [i \in 1..d.nrows |-> d.data[i][j]]

\* df.empty
DfEmpty(d) == d.nrows = 0 \/ d.ncols = 0

\* is_numeric_dtype(df[col])
IsNumericDtype(dt) == dt \in {"int64", "float64"}

\* the dtype of the row Series df.iterrows() yields: the common dtype of the
\* columns (object if any column is, int64 if all are, float64 otherwise)
RowDtype(d) ==
    IF \E j \in 1..d.ncols : d.dtypes[j] = "object" THEN "object"
    ELSE IF \A j \in 1..d.ncols : d.dtypes[j] = "int64" THEN "int64"
    ELSE "float64"

\* row[col] for the i-th row of df.iterrows()
RowValue(d, i, j) ==
    IF RowDtype(d) = "float64" THEN AsFloat(d.data[i][j]) ELSE d.data[i][j]

\* pd.notna(val)
NotNa(v) == v.k \notin {"nan", "none"}

\* str(value)
PyStr(v) ==
    CASE v.k = "str" -> v.s
      [] v.k = "int" -> IntStr(v.n)
      [] v.k = "float" -> FloatStr(v.n)
      [] v.k = "nan" -> <<"n", "a", "n">>
      [] v.k = "inf" -> IF v.n > 0 THEN <<"i", "n", "f">>
                        ELSE <<"-", "i", "n", "f">>
      [] OTHER -> <<"N", "o", "n", "e">>

---------------------------------------------------------------------------
(* _stringify, lines 36-62. *)

BR == <<"<", "b", "r", ">">>

\* lines 55-62 with the pipe escaped by two backslashes
StringifyTextTwoBackslashes(t) ==
    LET t1 == Replace(t, <<CR, LF>>, <<LF>>)
        t2 == Replace(t1, <<CR>>, <<LF>>)
        t3 == Replace(t2, <<LF>>, BR)
    IN  Replace(t3, <<PIPE>>, <<BACKSLASH, BACKSLASH, PIPE>>)

\* lines 55-62 with the CR replaced before the CRLF
StringifyTextCRFirst(t) ==
    LET t1 == Replace(t, <<CR>>, <<LF>>)
        t2 == Replace(t1, <<CR, LF>>, <<LF>>)
        t3 == Replace(t2, <<LF>>, BR)
    IN  Replace(t3, <<PIPE>>, <<BACKSLASH, PIPE>>)

\* lines 55-62 without the newline replacement of line 59
StringifyTextKeepNewlines(t) == Replace(t, <<PIPE>>, <<BACKSLASH, PIPE>>)

\* lines 55-62 without the pipe escaping of line 61
StringifyTextKeepPipes(t) ==
    LET t1 == Replace(t, <<CR, LF>>, <<LF>>)
        t2 == Replace(t1, <<CR>>, <<LF>>)
    IN  Replace(t2, <<LF>>, BR)

\* lines 55-62: newlines to <br>, pipes escaped
StringifyText(t) ==
    LET t1 == Replace(t, <<CR, LF>>, <<LF>>)
        t2 == Replace(t1, <<CR>>, <<LF>>)
        t3 == Replace(t2, <<LF>>, BR)
    IN  Replace(t3, <<PIPE>>, <<BACKSLASH, PIPE>>)

\* _stringify without the math.isnan test of lines 42-43
StringifyNanAsText(v) ==
    IF v.k = "none" THEN <<>>
    ELSE IF v.k = "float" /\ v.n % 10 = 0 THEN IntStr(FloatToInt(v.n))
    ELSE StringifyText(PyStr(v))

\* _stringify(value), lines 36-62
Stringify(v) ==
    IF v.k = "none" THEN <<>>
    ELSE IF v.k = "nan" THEN <<>>
    ELSE IF v.k = "float" /\ v.n % 10 = 0 THEN IntStr(FloatToInt(v.n))
    ELSE StringifyText(PyStr(v))

---------------------------------------------------------------------------
(* extract_sheet_text, lines 151-173: column labels, row records and the   *)
(* flat text.                                                              *)

\* line 151: [_col_letter(i) for i in range(len(df.columns))]
ColumnLabels(d) == [j \in 1..d.ncols |-> ColLetter(j - 1)]

\* the text of a present cell without the .strip() of lines 165 and 168
CellTextNoStrip(val) == IF val.k = "str" THEN val.s ELSE PyStr(val)

\* lines 164-168: the text of a present cell
CellText(val) == Strip(IF val.k = "str" THEN val.s ELSE PyStr(val))

\* the loop body storing the trimmed text of the cell in the record
ExtractCellStoresTrimmed(acc, label, val) ==
    LET stored == IF ~NotNa(val) THEN None
                  ELSE IF val.k = "str" THEN StrVal(CellText(val))
                  ELSE val
        rd == (label :> stored) @@ acc.row_dict
        text == CellText(val)
        add == NotNa(val) /\ text # <<>> /\ text \notin acc.seen
    IN  [row_dict |-> rd,
         flat |-> IF add THEN Append(acc.flat, text) ELSE acc.flat,
         seen |-> IF add THEN acc.seen \cup {text} ELSE acc.seen]

\* the loop body without the "text not in seen" test of line 170
ExtractCellNoSeen(acc, label, val) ==
    LET stored == IF NotNa(val) THEN val ELSE None
        rd == (label :> stored) @@ acc.row_dict
        text == CellText(val)
        add == NotNa(val) /\ text # <<>>
    IN  [row_dict |-> rd,
         flat |-> IF add THEN Append(acc.flat, text) ELSE acc.flat,
         seen |-> IF add THEN acc.seen \cup {text} ELSE acc.seen]

\* lines 160-172, the body of the inner loop, on the accumulators
\* acc = [row_dict, flat, seen]
ExtractCell(acc, label, val) ==
    LET stored == IF NotNa(val) THEN val ELSE None
        rd == (label :> stored) @@ acc.row_dict
        text == CellText(val)
        add == NotNa(val) /\ text # <<>> /\ text \notin acc.seen
    IN  [row_dict |-> rd,
         flat |-> IF add THEN Append(acc.flat, text) ELSE acc.flat,
         seen |-> IF add THEN acc.seen \cup {text} ELSE acc.seen]

RECURSIVE ExtractRow(_, _, _, _, _)
\* lines 159-172: the inner loop from column j on, for row i
ExtractRow(d, labels, i, j, acc) ==
    IF j > d.ncols THEN acc
    ELSE ExtractRow(d, labels, i, j + 1,
                    ExtractCell(acc, labels[j], RowValue(d, i, j)))

RECURSIVE ExtractRows(_, _, _, _)
\* lines 157-173: the outer loop from row i on; st = [rows, flat, seen]
ExtractRows(d, labels, i, st) ==
    IF i > d.nrows THEN st
    ELSE LET acc == ExtractRow(d, labels, i, 1,
                        [row_dict |-> <<>>, flat |-> st.flat, seen |-> st.seen])
         IN  ExtractRows(d, labels, i + 1,
                         [rows |-> Append(st.rows, acc.row_dict),
                          flat |-> acc.flat,
                          seen |-> acc.seen])

\* lines 153-173
BuildRows(d, labels) ==
    ExtractRows(d, labels, 1, [rows |-> <<>>, flat |-> <<>>, seen |-> {}])

---------------------------------------------------------------------------
(* _dataframe_to_markdown_no_header, lines 176-229. *)

\* lines 179-182 with every column left-aligned
AlignsAllLeft(d) == [j \in 1..d.ncols |-> "left"]

\* lines 179-182
Aligns(d) ==
    [j \in 1..d.ncols |->
       IF IsNumericDtype(d.dtypes[j]) THEN "right" ELSE "left"]

RECURSIVE MaxCellLen(_, _, _)
\* lines 189-192: the running maximum over the column's values from i on
MaxCellLen(col, i, cur) ==
    IF i > Len(col) THEN cur
    ELSE LET cell_len == Len(Stringify(col[i]))
         IN  MaxCellLen(col, i + 1, IF cell_len > cur THEN cell_len ELSE cur)

\* lines 187-193 without the minimum of 3 of line 193
WidthNoMinimum(d, j) ==
    IF ~DfEmpty(d) THEN MaxCellLen(ColumnList(d, j), 1, 0) ELSE 0

\* lines 187-193, for column j
Width(d, j) ==
    LET max_cell_len == IF ~DfEmpty(d) THEN MaxCellLen(ColumnList(d, j), 1, 0)
                        ELSE 0
    IN  Max(3, max_cell_len)

\* lines 185-193
Widths(d) == [j \in 1..d.ncols |-> Width(d, j)]

\* the line without its closing " |"
MdLineNoClose(cells) == <<PIPE, SP>> \o Join(<<SP, PIPE, SP>>, cells)

\* "| " + " | ".join(cells) + " |", lines 197, 210 and 227
MdLine(cells) == <<PIPE, SP>> \o Join(<<SP, PIPE, SP>>, cells) \o <<SP, PIPE>>

\* line 196
HeaderCell(w) == LJust(<<>>, w)

\* lines 202-208 with the right-alignment colon forgotten
SepCellNoColon(align, w) == Repeat("-", Max(3, w))

\* lines 202-208 (no column is ever "center")
SepCell(align, w) ==
    IF align = "right" THEN Repeat("-", Max(3, w) - 1) \o <<":">>
    ELSE IF align = "center"
         THEN <<":">> \o Repeat("-", Max(1, w - 2)) \o <<":">>
    ELSE Repeat("-", Max(3, w))

\* lines 217-226
BodyCell(align, w, val) ==
    LET t == Stringify(val)
    IN  IF align = "right" THEN RJust(t, w)
        ELSE IF align = "center"
             THEN LET left == (w - Len(t)) \div 2
                      right == w - Len(t) - left
                  IN  Repeat(SP, left) \o t \o Repeat(SP, right)
        ELSE LJust(t, w)

\* lines 196-197
HeaderRow(widths) == MdLine([j \in 1..Len(widths) |-> HeaderCell(widths[j])])

\* lines 200-210
SepRow(aligns, widths) ==
    MdLine([j \in 1..Len(aligns) |-> SepCell(aligns[j], widths[j])])

\* lines 215-227, for the i-th row of df_local.iterrows()
BodyRow(d, aligns, widths, i) ==
    MdLine([j \in 1..d.ncols |->
              BodyCell(aligns[j], widths[j], RowValue(d, i, j))])

\* lines 176-229
DataframeToMarkdownNoHeader(d) ==
    LET aligns == Aligns(d)
        widths == Widths(d)
        body_rows == [i \in 1..d.nrows |-> BodyRow(d, aligns, widths, i)]
    IN  Join(<<LF>>, <<HeaderRow(widths), SepRow(aligns, widths)>> \o body_rows)

---------------------------------------------------------------------------
(* _engine_for_excel, lines 9-20, and what pd.read_excel does with the     *)
(* file, lines 136 and 255.                                                *)

LowerLetters ==
    <<"a", "b", "c", "d", "e", "f", "g", "h", "i", "j", "k", "l", "m",
      "n", "o", "p", "q", "r", "s", "t", "u", "v", "w", "x", "y", "z">>

\* str.lower() on one character
LowerChar(c) ==
    IF \E k \in 1..Len(Letters) : Letters[k] = c
    THEN LowerLetters[CHOOSE k \in 1..Len(Letters) : Letters[k] = c]
    ELSE c

\* str.lower()
Lower(t) == [p \in 1..Len(t) |-> LowerChar(t[p])]

\* str.rfind(c) + 1: the last position of c in t, 0 when there is none
RFind(t, c) ==
    IF \E p \in 1..Len(t) : t[p] = c
    THEN CHOOSE p \in 1..Len(t) : t[p] = c /\ \A r \in (p + 1)..Len(t) : t[r] # c
    ELSE 0

\* os.path.splitext(path)[1] (posixpath): from the last dot of the last
\* path component on, unless that component has only dots before it
SplitExt(path) ==
    LET sepIndex == RFind(path, "/")
        dotIndex == RFind(path, ".")
    IN  IF /\ dotIndex > sepIndex
           /\ \E k \in (sepIndex + 1)..(dotIndex - 1) : path[k] # "."
        THEN SubSeq(path, dotIndex, Len(path))
        ELSE <<>>

\* lines 14-20 without the .lower() of line 14
EngineForExcelCaseSensitive(path) ==
    LET ext == SplitExt(path)
    IN  IF ext \in {XLSX, XLSM} THEN "openpyxl"
        ELSE IF ext = XLS THEN "xlrd"
        ELSE "None"

\* _engine_for_excel(path), lines 14-20
EngineForExcel(path) ==
    LET ext == Lower(SplitExt(path))
    IN  IF ext \in {XLSX, XLSM} THEN "openpyxl"
        ELSE IF ext = XLS THEN "xlrd"
        ELSE "None"

\* The paths of the model, each with the extension it is written with.
Stems == { <<"b">>, <<"d", ".", "v", "/", "b">> }

Exts ==
    { XLSX, <<".", "X", "L", "S", "X">>, XLSM, <<".", "x", "L", "s", "M">>,
      XLS, <<".", "X", "l", "s">>, <<".", "x", "l", "s", "b">>,
      <<".", "c", "s", "v">>, <<>> }

PathTable == {[path |-> st \o e, ext |-> e] : st \in Stems, e \in Exts}

Paths == {r.path : r \in PathTable}

\* what lies at excel_path: nothing, a file that is no workbook, or a
\* workbook in the zipped (xlsx, xlsm) or in the binary (xls) format
Kinds == {"missing", "garbage", "xlsx", "xls"}

SheetNames == {"Sheet1", "Other"}

\* the sheets of at most one cell
CallSheets == {g \in Sheets : NRows(g) * NCols(g) <= 1}

\* a file system with a workbook of the one sheet "Sheet1" at excel_path
DiskWith(kind, g) ==
    [kind |-> kind, sheets |-> {"Sheet1"}, grid |-> g,
     dir |-> FALSE, out |-> "absent"]

\* the reader can open the file: it exists and has the format of the
\* engine, or a format pandas detects when the engine is None
CanOpen(d, e) ==
    \/ d.kind = "xlsx" /\ e \in {"openpyxl", "None"}
    \/ d.kind = "xls" /\ e \in {"xlrd", "None"}

\* pd.read_excel returns without opening the file
CanReadUnopened(d, e, name) == name \in d.sheets

\* pd.read_excel(excel_path, sheet_name=name, engine=e) returns
CanRead(d, e, name) == CanOpen(d, e) /\ name \in d.sheets

\* the exception of pd.read_excel when it does not return
ReadError(d, e, name) ==
    IF d.kind = "missing" THEN "FileNotFoundError"
    ELSE IF ~CanOpen(d, e) THEN "ReaderError"
    ELSE "ValueError"

\* pd.read_excel(excel_path, sheet_name=..., engine=...), line 255: the
\* first row of the sheet gives the column names
ReadExcelHeaderDf(g) ==
    IF NRows(g) = 0 THEN NoDf
    ELSE LET body == Tail(g)
             dt == [j \in 1..NCols(g) |->
                      IF body = <<>> THEN "object" ELSE ColDtype(body, j)]
         IN  [nrows |-> Len(body),
              ncols |-> NCols(g),
              dtypes |-> dt,
              data |-> [i \in 1..Len(body) |->
                         [j \in 1..NCols(g) |->
                            IF dt[j] = "float64" THEN AsFloat(body[i][j])
                            ELSE body[i][j]]]]

---------------------------------------------------------------------------
(* Loading core/generate_script_json.py: the logical lines of              *)
(* invoke_openai_with_image_and_pdf, lines 99-174, as the compiler reads   *)
(* them.                                                                   *)

EnvNames ==
    {"OPENAI_API_KEY", "OPENAI_API_BASE", "OPENAI_API_VERSION",
     "OPENAI_DEPLOYMENT_NAME"}

\* a logical line: the number of its first physical line, the column its
\* first token starts at, and whether it ends with a colon and so opens a
\* block
SrcLine(no, indent, opens) == [no |-> no, indent |-> indent, opens |-> opens]

SourceLines ==
    << SrcLine(99, 0, TRUE),     \* def invoke_openai_with_image_and_pdf(...):
       SrcLine(100, 4, FALSE),   \* the docstring
       SrcLine(119, 4, FALSE),   \* api_key = os.getenv(...)
       SrcLine(120, 4, FALSE),   \* api_base = os.getenv(...)
       SrcLine(121, 4, FALSE),   \* api_version = os.getenv(...)
       SrcLine(122, 4, FALSE),   \* model = os.getenv(...)
       SrcLine(124, 4, TRUE),    \* if not all([...]):
       SrcLine(125, 8, FALSE),   \* raise RuntimeError(...)
       SrcLine(129, 4, FALSE),   \* client = AzureOpenAI(...)
       SrcLine(136, 4, TRUE),    \* with open(image_path, "rb") as f:
       SrcLine(137, 8, FALSE),   \* img_b64 = ...
       SrcLine(139, 4, TRUE),    \* with open(pdf_path, "rb") as f:
       SrcLine(140, 8, FALSE),   \* pdf_b64 = ...
       SrcLine(142, 4, FALSE),   \* input_payload = [...]
       SrcLine(161, 4, FALSE),   \* response = client.chat.completions.create(...)
       SrcLine(163, 20, FALSE),  \* "type": "file",
       SrcLine(164, 20, FALSE),  \* "file": {...},
       SrcLine(165, 16, FALSE),  \* },
       SrcLine(166, 12, FALSE),  \* ],
       SrcLine(167, 8, FALSE),   \* }
       SrcLine(168, 4, FALSE),   \* ]
       SrcLine(170, 4, FALSE),   \* response = client.chat.completions.create(...)
       SrcLine(174, 4, FALSE) >> \* return response.choices[0].message.content

\* the indentation stack after a line that starts at column c: the levels
\* deeper than c are closed
RECURSIVE Dedent(_, _)
Dedent(stack, c) ==
    IF Len(stack) > 1 /\ stack[Len(stack)] > c
    THEN Dedent(SubSeq(stack, 1, Len(stack) - 1), c)
    ELSE stack

\* the compiler on logical line k with the indentation stack given: the
\* new stack, and whether the line is accepted.  A line may be indented
\* deeper than the one before it exactly when that one opens a block; a
\* shallower line must return to an open level.
CompileLine(k, stack) ==
    LET l == SourceLines[k]
        top == stack[Len(stack)]
        opened == k > 1 /\ SourceLines[k - 1].opens
    IN  IF l.indent > top
        THEN [ok |-> opened, stack |-> Append(stack, l.indent)]
        ELSE LET st == Dedent(stack, l.indent)
             IN  [ok |-> ~opened /\ st[Len(st)] = l.indent, stack |-> st]

---------------------------------------------------------------------------
(* generate_audio_from_script, core/generate_audio.py lines 7-50.          *)

\* the scripts a call can be given
Scripts == {"s1", "s2"}

\* datetime.now().strftime("%Y%m%d_%H%M%S"), line 24: the clock cut to
\* whole seconds
Timestamp(t) == t \div TicksPerSecond

\* lines 25-26: os.path.join(VOICE_OUTPUT_FOLDER, f"audio_{timestamp}.mp3")
AudioPath(stamp) == [folder |-> "VOICE_OUTPUT_FOLDER", stamp |-> stamp]

NoPath == [folder |-> "", stamp |-> 0]

\* a dict without keys, and dict.get(key, default)
EmptyDict == <<>>
Get(d, key, default) == IF key \in DOMAIN d THEN d[key] ELSE default

\* VOICE_OUTPUT_FOLDER: absent, or present with its files, each file with
\* the script whose audio it holds
NoVoice == [exists |-> FALSE, files |-> EmptyDict]
EmptyVoice == [exists |-> TRUE, files |-> EmptyDict]
\* a file left by an earlier process, named after the first second
OldVoice == [exists |-> TRUE, files |-> (AudioPath(0) :> "old")]

\* the HTTP status codes of the TTS service of the model
Statuses == {200, 500}

\* one call generate_audio_from_script(script) at clock t, lines 14-50, with
\* the status the service answers with: how the call ends, the path it
\* returns, the folder after it and whether a request was sent
GenerateAudio(script, t, env, v, status) ==
    IF ~env
    THEN [outcome |-> "RuntimeError", path |-> NoPath, voice |-> v,
          posted |-> FALSE]
    ELSE LET v1 == [v EXCEPT !.exists = TRUE]
             output_path == AudioPath(Timestamp(t))
         IN  IF output_path \in DOMAIN v1.files
             THEN [outcome |-> "reused", path |-> output_path, voice |-> v1,
                   posted |-> FALSE]
             ELSE IF status = 200
             THEN [outcome |-> "written", path |-> output_path,
                   voice |-> [v1 EXCEPT
                                !.files = (output_path :> script) @@ v1.files],
                   posted |-> TRUE]
             ELSE [outcome |-> "Exception", path |-> NoPath, voice |-> v1,
                   posted |-> TRUE]

\* the entry of audio_log for a call
LogEntry(script, t, r) ==
    [script |-> script, at |-> t, outcome |-> r.outcome, path |-> r.path]

\* the call returned a path
ReturnedPath(c) == c.outcome \in {"written", "reused"}

---------------------------------------------------------------------------
(* add_tts_to_paragraphs, generate_from_image.py lines 69-80.              *)

\* the paragraphs of the model: without an audio_script, with an empty one,
\* with a script
ParaInputs ==
    { EmptyDict,
      ("audio_script" :> ""),
      ("audio_script" :> "s1"),
      ("audio_script" :> "s2") }

ParaLists == UNION {[1..k -> ParaInputs] : k \in 0..MaxParas}

NoScriptData == [id |-> 0, paragraphs |-> <<>>]

\* lines 75-77: the paragraph is passed over
SkipsParagraph(para) == Get(para, "audio_script", "") = ""

---------------------------------------------------------------------------
(* generate_video_for_paragraphs, core/generate_video.py lines 14-76.      *)

\* line 44: os.path.join(VIDEO_OUTPUT_FOLDER, f"video_{timestamp}.mp4")
VideoPath(stamp) == [folder |-> "VIDEO_OUTPUT_FOLDER", stamp |-> stamp]

\* an output_path given by the caller
GivenVideoPath == [folder |-> "given", stamp |-> 0]

\* the argument output_path: None (or ""), or a path
OutputPaths == {NoPath, GivenVideoPath}

\* the audio folder with the files of two earlier seconds
TwoVoice ==
    [exists |-> TRUE, files |-> (AudioPath(0) :> "s1") @@ (AudioPath(1) :> "s2")]

\* the paragraphs of the argument: without an audio_file_path, with None (or
\* ""), with the path of either second
VideoParaInputs ==
    { EmptyDict,
      ("audio_file_path" :> NoPath),
      ("audio_file_path" :> AudioPath(0)),
      ("audio_file_path" :> AudioPath(1)) }

VideoParaLists == UNION {[1..k -> VideoParaInputs] : k \in 0..MaxParas}

\* the mutant of line 50 that does not look for the file
SkipsClipUnlessSet(para, files) ==
    Get(para, "audio_file_path", NoPath) = NoPath

\* lines 49-51: not audio_file or not os.path.exists(audio_file)
SkipsClip(para, files) ==
    LET audio_file == Get(para, "audio_file_path", NoPath)
    IN  audio_file = NoPath \/ audio_file \notin DOMAIN files

---------------------------------------------------------------------------
(* main, generate_from_image.py lines 94-191.                              *)

\* an argument of main: None, a path or, for the sheet, the empty string; an
\* image or PDF path names a file or does not; a workbook can be read or
\* cannot
ImageArgs == {"None", "file", "missing"}
ExcelArgs == {"None", "book", "unreadable"}
SheetArgs == {"None", "", "Sheet1"}

MainArgs ==
    [image_path : ImageArgs, pdf_path : ImageArgs, excel_path : ExcelArgs,
     sheet_name : SheetArgs]

NoArgs ==
    [image_path |-> "None", pdf_path |-> "None", excel_path |-> "None",
     sheet_name |-> "None"]

\* the truth value of an argument: None and "" are false
Truthy(arg) == arg \notin {"None", ""}

\* os.path.exists(path), lines 113 and 115
Exists(arg) == arg = "file"

\* lines 134 and 140: the suffix of the file names
SuffixOf(a) ==
    IF Truthy(a.excel_path) /\ Truthy(a.sheet_name)
    THEN "book_Sheet1"
    ELSE "image_only"

\* line 146: os.path.join(output_dir, f"script_json_output_{suffix}.json")
OutputFile(day, sfx) == [day |-> day, suffix |-> sfx]

\* lines 127, 136 and 142: the files under output/prompts/<date>
PromptFile(day, name) == [day |-> day, name |-> name]

\* the paragraphs of the model's LLM: one without text to speak, two with
\* their texts, one that has an audio_file_path already
SilentParas == <<("audio_script" :> "")>>
SpokenParas == <<("audio_script" :> "s1"), ("audio_script" :> "s2")>>
VoicedParas == <<("audio_file_path" :> AudioPath(0)) @@ ("audio_script" :> "s1")>>

\* a JSON value: an object with its paragraphs and with or without a
\* raw_text, or a value that is no object
JsonObject(ps, raw) == [object |-> TRUE, raw_text |-> raw, paragraphs |-> ps]
JsonArray == [object |-> FALSE, raw_text |-> FALSE, paragraphs |-> <<>>]

\* a text: whether it is JSON, the value it denotes and its indentation
NoText == [json |-> FALSE, indent |-> 0, value |-> JsonArray]
NotJson == [json |-> FALSE, indent |-> 1, value |-> JsonArray]
JsonText(value, indent) == [json |-> TRUE, indent |-> indent, value |-> value]

\* what the LLM can answer
Responses ==
    { NotJson,
      JsonText(JsonArray, 0),
      JsonText(JsonObject(SilentParas, FALSE), 0),
      JsonText(JsonObject(SpokenParas, FALSE), 0),
      JsonText(JsonObject(VoicedParas, TRUE), 0) }

\* json.loads(text), line 169
JsonLoads(text) ==
    IF text.json THEN [ok |-> TRUE, value |-> text.value]
    ELSE [ok |-> FALSE, value |-> JsonArray]

\* json.dumps(value, ensure_ascii=False, indent=2), line 182
JsonDumps(value) == JsonText(value, 2)

\* lines 154-164: the call that is made
LlmCallTruthyImageOnly(a) ==
    IF Truthy(a.image_path) THEN "invoke_openai_with_image" ELSE "invoke_openai"

LlmCall(a) ==
    IF Truthy(a.pdf_path) /\ Truthy(a.image_path)
    THEN "invoke_openai_with_image_and_pdf"
    ELSE IF Truthy(a.image_path)
    THEN "invoke_openai_with_image"
    ELSE "invoke_openai"

\* the mutant of line 179 that never finds audio
AudioExistsNever(ps) == FALSE

\* line 179: any("audio_file_path" in p for p in paragraphs)
AudioExists(ps) == \E i \in DOMAIN ps : "audio_file_path" \in DOMAIN ps[i]

---------------------------------------------------------------------------
(* The state machines. *)

NoResult == [set |-> FALSE]

NoDisk == DiskWith("missing", <<>>)

LabelIdle == idx = 0 /\ n = 0 /\ s = <<>> /\ lpc = "idle"

ExtractIdle ==
    /\ pc = "idle"
    /\ df = NoDf
    /\ column_labels = <<>>
    /\ rows = <<>>
    /\ flat = <<>>
    /\ markdown = <<>>
    /\ result = NoResult

CallIdle ==
    /\ excel_path = <<>>
    /\ sheet_name = "Sheet1"
    /\ disk = NoDisk
    /\ engine = "unset"
    /\ err = "none"
    /\ reads = 0

OpenaiIdle ==
    /\ environ = {}
    /\ src_line = 0
    /\ indents = <<>>
    /\ module = "unloaded"
    /\ requests = 0

AudioIdle ==
    /\ now = 0
    /\ tts_env = FALSE
    /\ voice = NoVoice
    /\ posts = <<>>
    /\ audio_log = <<>>

TtsIdle ==
    /\ script_data = NoScriptData
    /\ ti = 0
    /\ tts_pc = "idle"
    /\ tts_ret = 0

VideoIdle ==
    /\ text_audio_mapping = <<>>
    /\ video_out = NoPath
    /\ video_path = NoPath
    /\ vi = 0
    /\ clips = <<>>
    /\ videos = <<>>
    /\ video_pc = "idle"
    /\ video_ret = NoPath

NoRun == [day |-> 0, asked |-> FALSE, saved_audio |-> FALSE]

NoStart == EmptyDict

MainIdle ==
    /\ args = NoArgs
    /\ today = 0
    /\ run = 0
    /\ main_pc = "idle"
    /\ main_err = "none"
    /\ events = <<>>
    /\ suffix = ""
    /\ script_json = NoText
    /\ script_files = EmptyDict
    /\ prompt_files = {}
    /\ last_run = NoRun
    /\ at_start = NoStart

PipelineIdle == AudioIdle /\ TtsIdle /\ VideoIdle /\ MainIdle

\* a call _col_letter(idx), lines 140-141
InitLabel ==
    /\ idx \in 0..MaxIdx
    /\ n = idx
    /\ s = <<>>
    /\ lpc = "loop"
    /\ ExtractIdle
    /\ CallIdle
    /\ OpenaiIdle
    /\ PipelineIdle

\* one iteration of the while loop, lines 142-147
ColLetterStep ==
    /\ lpc = "loop"
    /\ LET it == ColLetterIter(n, s)
       IN  /\ n' = it.n
           /\ s' = it.s
           /\ lpc' = IF it.done THEN "done" ELSE "loop"
    /\ UNCHANGED <<idx>>
    /\ UNCHANGED <<extractVars, callVars, openaiVars, pipelineVars>>

NextLabel == ColLetterStep

SpecLabel == InitLabel /\ [][NextLabel]_vars

\* the locals of a call before its first statement
CallStart ==
    /\ df = NoDf
    /\ column_labels = <<>>
    /\ rows = <<>>
    /\ flat = <<>>
    /\ markdown = <<>>
    /\ result = NoResult
    /\ engine = "unset"
    /\ err = "none"
    /\ reads = 0

\* a call extract_sheet_text(excel_path, sheet_name), before line 134, on a
\* workbook that holds the sheet
Init ==
    /\ LabelIdle
    /\ OpenaiIdle
    /\ PipelineIdle
    /\ pc = "read"
    /\ excel_path = <<"b">> \o XLSX
    /\ sheet_name = "Sheet1"
    /\ \E g \in Sheets : disk = DiskWith("xlsx", g)
    /\ CallStart

\* a call extract_sheet_text(excel_path, sheet_name) or
\* export_sheet_pdf(excel_path, sheet_name, output_pdf) with any path, any
\* file at the path and a sheet name the workbook has or has not
InitCall ==
    /\ LabelIdle
    /\ OpenaiIdle
    /\ PipelineIdle
    /\ pc \in {"read", "export_read"}
    /\ excel_path \in Paths
    /\ sheet_name \in SheetNames
    /\ \E k \in Kinds : \E g \in CallSheets : disk = DiskWith(k, g)
    /\ CallStart

\* lines 134-136 with a reader that leaves a file of its own next to the
\* workbook
ReadExcelLeavingFile ==
    /\ pc = "read"
    /\ LET e == EngineForExcel(excel_path)
       IN  /\ CanRead(disk, e, sheet_name)
           /\ engine' = e
    /\ df' = ReadExcelDf(disk.grid)
    /\ reads' = reads + 1
    /\ pc' = "rows"
    /\ disk' = [disk EXCEPT !.dir = TRUE]
    /\ UNCHANGED <<column_labels, rows, flat, markdown, result>>
    /\ UNCHANGED <<excel_path, sheet_name, err>>
    /\ UNCHANGED <<labelVars, openaiVars, pipelineVars>>

\* lines 134-136: the engine is chosen and the sheet is read into df
ReadExcel ==
    /\ pc = "read"
    /\ LET e == EngineForExcel(excel_path)
       IN  /\ CanRead(disk, e, sheet_name)
           /\ engine' = e
    /\ df' = ReadExcelDf(disk.grid)
    /\ reads' = reads + 1
    /\ pc' = "rows"
    /\ UNCHANGED <<column_labels, rows, flat, markdown, result>>
    /\ UNCHANGED <<excel_path, sheet_name, disk, err>>
    /\ UNCHANGED <<labelVars, openaiVars, pipelineVars>>

\* lines 134-136 when pd.read_excel raises: the exception leaves the call
ReadExcelRaises ==
    /\ pc = "read"
    /\ LET e == EngineForExcel(excel_path)
       IN  /\ ~CanRead(disk, e, sheet_name)
           /\ engine' = e
           /\ err' = ReadError(disk, e, sheet_name)
    /\ reads' = reads + 1
    /\ pc' = "raised"
    /\ UNCHANGED <<df, column_labels, rows, flat, markdown, result>>
    /\ UNCHANGED <<excel_path, sheet_name, disk>>
    /\ UNCHANGED <<labelVars, openaiVars, pipelineVars>>

\* lines 151-173: the column labels, the row records and the flat text
ExtractRowsAndFlat ==
    /\ pc = "rows"
    /\ LET labels == ColumnLabels(df)
           st == BuildRows(df, labels)
       IN  /\ column_labels' = labels
           /\ rows' = st.rows
           /\ flat' = st.flat
    /\ pc' = "markdown"
    /\ UNCHANGED <<df, markdown, result>>
    /\ UNCHANGED <<labelVars, callVars, openaiVars, pipelineVars>>

\* line 231
RenderMarkdown ==
    /\ pc = "markdown"
    /\ markdown' = DataframeToMarkdownNoHeader(df)
    /\ pc' = "return"
    /\ UNCHANGED <<df, column_labels, rows, flat, result>>
    /\ UNCHANGED <<labelVars, callVars, openaiVars, pipelineVars>>

\* lines 233-239
Return ==
    /\ pc = "return"
    /\ result' = [set |-> TRUE,
                  columns |-> column_labels,
                  rows |-> rows,
                  flat_text |-> flat,
                  markdown |-> markdown]
    /\ pc' = "done"
    /\ UNCHANGED <<df, column_labels, rows, flat, markdown>>
    /\ UNCHANGED <<labelVars, callVars, openaiVars, pipelineVars>>

\* export_sheet_pdf, lines 254-255: the engine is chosen and the sheet read
ExportReadExcel ==
    /\ pc = "export_read"
    /\ LET e == EngineForExcel(excel_path)
       IN  /\ CanRead(disk, e, sheet_name)
           /\ engine' = e
    /\ df' = ReadExcelHeaderDf(disk.grid)
    /\ reads' = reads + 1
    /\ pc' = "export_write"
    /\ UNCHANGED <<column_labels, rows, flat, markdown, result>>
    /\ UNCHANGED <<excel_path, sheet_name, disk, err>>
    /\ UNCHANGED <<labelVars, openaiVars, pipelineVars>>

\* export_sheet_pdf, lines 254-255, when pd.read_excel raises
ExportReadExcelRaises ==
    /\ pc = "export_read"
    /\ LET e == EngineForExcel(excel_path)
       IN  /\ ~CanRead(disk, e, sheet_name)
           /\ engine' = e
           /\ err' = ReadError(disk, e, sheet_name)
    /\ reads' = reads + 1
    /\ pc' = "export_raised"
    /\ UNCHANGED <<df, column_labels, rows, flat, markdown, result>>
    /\ UNCHANGED <<excel_path, sheet_name, disk>>
    /\ UNCHANGED <<labelVars, openaiVars, pipelineVars>>

\* export_sheet_pdf, lines 258-273: the output directory is made, then the
\* PDF is written by pdfkit or, when pdfkit raises, by weasyprint; when
\* weasyprint raises too its exception leaves the call
ExportWritePdf ==
    /\ pc = "export_write"
    /\ \E writer \in {"pdfkit", "weasyprint", "neither"} :
         IF writer = "neither"
         THEN /\ disk' = [disk EXCEPT !.dir = TRUE]
              /\ err' = "PdfError"
              /\ pc' = "export_raised"
              /\ UNCHANGED result
         ELSE /\ disk' = [disk EXCEPT !.dir = TRUE, !.out = "written"]
              /\ result' = [set |-> TRUE, path |-> "output_pdf"]
              /\ pc' = "export_done"
              /\ UNCHANGED err
    /\ UNCHANGED <<df, column_labels, rows, flat, markdown>>
    /\ UNCHANGED <<excel_path, sheet_name, engine, reads>>
    /\ UNCHANGED <<labelVars, openaiVars, pipelineVars>>

\* a call extract_sheet_text(excel_path, sheet_name) on a sheet with
\* non-finite floats
InitNonFinite ==
    /\ LabelIdle
    /\ OpenaiIdle
    /\ PipelineIdle
    /\ pc = "read"
    /\ excel_path = <<"b">> \o XLSX
    /\ sheet_name = "Sheet1"
    /\ \E g \in NonFiniteSheets : disk = DiskWith("xlsx", g)
    /\ CallStart

Next ==
    \/ ReadExcel
    \/ ExtractRowsAndFlat
    \/ RenderMarkdown
    \/ Return

Spec == Init /\ [][Next]_vars

SpecNonFinite == InitNonFinite /\ [][Next]_vars

NextCall ==
    \/ ReadExcel
    \/ ReadExcelRaises
    \/ ExtractRowsAndFlat
    \/ RenderMarkdown
    \/ Return
    \/ ExportReadExcel
    \/ ExportReadExcelRaises
    \/ ExportWritePdf

SpecCall == InitCall /\ [][NextCall]_vars

\* "import core.generate_script_json", with any of the four names set in
\* the environment: the compiler is before the def of line 99
InitImport ==
    /\ LabelIdle
    /\ ExtractIdle
    /\ CallIdle
    /\ PipelineIdle
    /\ environ \in SUBSET EnvNames
    /\ src_line = 1
    /\ indents = <<0>>
    /\ module = "compiling"
    /\ requests = 0

\* the compiler reads one logical line; the first line it rejects ends the
\* import with an IndentationError, and nothing of the module is run
CompileStep ==
    /\ module = "compiling"
    /\ IF src_line > Len(SourceLines)
       THEN /\ module' = "loaded"
            /\ UNCHANGED <<src_line, indents>>
       ELSE LET c == CompileLine(src_line, indents)
            IN  IF c.ok
                THEN /\ src_line' = src_line + 1
                     /\ indents' = c.stack
                     /\ UNCHANGED module
                ELSE /\ module' = "IndentationError"
                     /\ UNCHANGED <<src_line, indents>>
    /\ UNCHANGED <<environ, requests>>
    /\ UNCHANGED <<labelVars, extractVars, callVars, pipelineVars>>

NextImport == CompileStep

SpecImport == InitImport /\ [][NextImport]_vars

---------------------------------------------------------------------------
(* Calls of generate_audio_from_script, one after the other, in a process  *)
(* whose clock goes on.                                                    *)

VoiceStart == voice \in {NoVoice, EmptyVoice, OldVoice}

InitAudio ==
    /\ LabelIdle
    /\ ExtractIdle
    /\ CallIdle
    /\ OpenaiIdle
    /\ TtsIdle
    /\ VideoIdle
    /\ MainIdle
    /\ now = 0
    /\ tts_env \in BOOLEAN
    /\ VoiceStart
    /\ posts = <<>>
    /\ audio_log = <<>>

\* the clock goes on by one tick; in a run of main it is looked at while
\* add_tts_to_paragraphs and generate_video_for_paragraphs are at work
Tick ==
    /\ now < MaxClock
    /\ main_pc \in {"idle", "tts_call", "video_call"}
    /\ now' = now + 1
    /\ UNCHANGED <<tts_env, voice, posts, audio_log>>
    /\ UNCHANGED <<labelVars, extractVars, callVars, openaiVars, ttsVars,
                   videoVars, mainVars>>

\* one call generate_audio_from_script(script), lines 14-50
AudioCall ==
    /\ Len(audio_log) < MaxCalls
    /\ \E script \in Scripts : \E status \in Statuses :
         LET r == GenerateAudio(script, now, tts_env, voice, status)
         IN  /\ voice' = r.voice
             /\ posts' = IF r.posted THEN Append(posts, script) ELSE posts
             /\ audio_log' = Append(audio_log, LogEntry(script, now, r))
    /\ UNCHANGED <<now, tts_env>>
    /\ UNCHANGED <<labelVars, extractVars, callVars, openaiVars, ttsVars,
                   videoVars, mainVars>>

NextAudio == Tick \/ AudioCall

SpecAudio == InitAudio /\ [][NextAudio]_vars

\* a call add_tts_to_paragraphs(script_data), before line 74
InitTts ==
    /\ LabelIdle
    /\ ExtractIdle
    /\ CallIdle
    /\ OpenaiIdle
    /\ VideoIdle
    /\ MainIdle
    /\ now = 0
    /\ tts_env \in BOOLEAN
    /\ VoiceStart
    /\ posts = <<>>
    /\ audio_log = <<>>
    /\ \E ps \in ParaLists : script_data = [id |-> 1, paragraphs |-> ps]
    /\ ti = 1
    /\ tts_pc = "loop"
    /\ tts_ret = 0

\* one pass of the for loop, lines 74-79
TtsStep ==
    /\ tts_pc = "loop"
    /\ ti <= Len(script_data.paragraphs)
    /\ LET para == script_data.paragraphs[ti]
           text == Get(para, "audio_script", "")
       IN  IF SkipsParagraph(para)
           THEN /\ ti' = ti + 1
                /\ UNCHANGED <<script_data, tts_pc, voice, posts, audio_log>>
           ELSE \E status \in Statuses :
                  LET r == GenerateAudio(text, now, tts_env, voice, status)
                  IN  /\ voice' = r.voice
                      /\ posts' = IF r.posted THEN Append(posts, text) ELSE posts
                      /\ audio_log' = Append(audio_log, LogEntry(text, now, r))
                      /\ IF ReturnedPath(r)
                         THEN /\ script_data' =
                                   [script_data EXCEPT !.paragraphs[ti] =
                                      ("audio_file_path" :> r.path) @@ para]
                              /\ ti' = ti + 1
                              /\ UNCHANGED tts_pc
                         ELSE /\ tts_pc' = "raised"
                              /\ UNCHANGED <<script_data, ti>>
    /\ UNCHANGED <<now, tts_env, tts_ret>>
    /\ UNCHANGED <<labelVars, extractVars, callVars, openaiVars, videoVars,
                   mainVars>>

\* line 80: return script_data
TtsReturn ==
    /\ tts_pc = "loop"
    /\ ti > Len(script_data.paragraphs)
    /\ tts_pc' = "returned"
    /\ tts_ret' = script_data.id
    /\ UNCHANGED <<script_data, ti>>
    /\ UNCHANGED audioVars
    /\ UNCHANGED <<labelVars, extractVars, callVars, openaiVars, videoVars,
                   mainVars>>

NextTts == Tick \/ TtsStep \/ TtsReturn

SpecTts == InitTts /\ [][NextTts]_vars

\* a call generate_video_for_paragraphs(text_audio_mapping, background,
\* output_path), before line 41; the audio folder holds the files of earlier
\* calls of generate_audio_from_script
InitVideo ==
    /\ LabelIdle
    /\ ExtractIdle
    /\ CallIdle
    /\ OpenaiIdle
    /\ TtsIdle
    /\ MainIdle
    /\ now = 0
    /\ tts_env = TRUE
    /\ voice \in {EmptyVoice, OldVoice, TwoVoice}
    /\ posts = <<>>
    /\ audio_log = <<>>
    /\ text_audio_mapping \in VideoParaLists
    /\ video_out \in OutputPaths
    /\ video_path = NoPath
    /\ vi = 1
    /\ clips = <<>>
    /\ videos = <<>>
    /\ video_pc = "start"
    /\ video_ret = NoPath

\* lines 41-44: the output path, timestamped when none is given
VideoStart ==
    /\ video_pc = "start"
    /\ video_path' = IF video_out = NoPath
                     THEN VideoPath(Timestamp(now))
                     ELSE video_out
    /\ video_pc' = "loop"
    /\ UNCHANGED <<text_audio_mapping, video_out, vi, clips, videos, video_ret>>
    /\ UNCHANGED <<labelVars, extractVars, callVars, openaiVars, audioVars,
                   ttsVars, mainVars>>

\* one pass of the for loop, lines 47-67
VideoStep ==
    /\ video_pc = "loop"
    /\ vi <= Len(text_audio_mapping)
    /\ LET para == text_audio_mapping[vi]
       IN  clips' = IF SkipsClip(para, voice.files)
                    THEN clips
                    ELSE Append(clips, [para |-> vi,
                                        audio |-> para["audio_file_path"]])
    /\ vi' = vi + 1
    /\ UNCHANGED <<text_audio_mapping, video_out, video_path, videos, video_pc,
                   video_ret>>
    /\ UNCHANGED <<labelVars, extractVars, callVars, openaiVars, audioVars,
                   ttsVars, mainVars>>

\* lines 69-76: RuntimeError without clips, else the video is written and
\* its path returned
VideoEnd ==
    /\ video_pc = "loop"
    /\ vi > Len(text_audio_mapping)
    /\ IF clips = <<>>
       THEN /\ video_pc' = "raised"
            /\ UNCHANGED <<videos, video_ret>>
       ELSE /\ videos' = Append(videos, [path |-> video_path, clips |-> clips])
            /\ video_ret' = video_path
            /\ video_pc' = "returned"
    /\ UNCHANGED <<text_audio_mapping, video_out, video_path, vi, clips>>
    /\ UNCHANGED <<labelVars, extractVars, callVars, openaiVars, audioVars,
                   ttsVars, mainVars>>

NextVideo == Tick \/ VideoStart \/ VideoStep \/ VideoEnd

SpecVideo == InitVideo /\ [][NextVideo]_vars

---------------------------------------------------------------------------
(* Runs of generate_from_image.main, one after the other, with the same    *)
(* arguments: what a run leaves on disk the next run finds.                *)

restVars == <<labelVars, extractVars, callVars, openaiVars>>

\* the first run, before line 108
InitMain ==
    /\ LabelIdle
    /\ ExtractIdle
    /\ CallIdle
    /\ OpenaiIdle
    /\ TtsIdle
    /\ VideoIdle
    /\ now = 0
    /\ tts_env \in BOOLEAN
    /\ voice = NoVoice
    /\ posts = <<>>
    /\ audio_log = <<>>
    /\ args \in MainArgs
    /\ today = 0
    /\ run = 1
    /\ main_pc = "start"
    /\ main_err = "none"
    /\ events = <<>>
    /\ suffix = ""
    /\ script_json = NoText
    /\ script_files = EmptyDict
    /\ prompt_files = {}
    /\ last_run = NoRun
    /\ at_start = NoStart

\* the run ends with an exception
Raise(e) ==
    /\ main_pc' = "raised"
    /\ main_err' = e

\* lines 108-116: the output folders, and the image and the PDF are looked
\* for
MainStart ==
    /\ main_pc = "start"
    /\ IF args.image_path # "None" /\ ~Exists(args.image_path)
       THEN Raise("FileNotFoundError")
       ELSE IF args.pdf_path # "None" /\ ~Exists(args.pdf_path)
       THEN Raise("FileNotFoundError")
       ELSE main_pc' = "prompt" /\ UNCHANGED main_err
    /\ UNCHANGED <<args, today, run, events, suffix, script_json, script_files,
                   prompt_files, last_run, at_start>>
    /\ UNCHANGED <<restVars, audioVars, ttsVars, videoVars>>

\* lines 119-143: the prompt is built and saved
MainPrompt ==
    /\ main_pc = "prompt"
    /\ IF Truthy(args.excel_path) /\ Truthy(args.sheet_name)
       THEN IF args.excel_path = "unreadable"
            THEN /\ Raise("extract_sheet_text")
                 /\ UNCHANGED <<events, suffix, prompt_files>>
            ELSE /\ suffix' = "book_Sheet1"
                 /\ prompt_files' = prompt_files \cup
                        { PromptFile(today, "excel_markdown_book_Sheet1.md"),
                          PromptFile(today, "prompt_book_Sheet1.txt") }
                 /\ events' = events \o <<"excel_markdown_saved",
                                          "excel_image_prompt_saved">>
                 /\ main_pc' = "script"
                 /\ UNCHANGED main_err
       ELSE /\ suffix' = "image_only"
            /\ prompt_files' = prompt_files \cup
                   { PromptFile(today, "prompt_image_only.txt") }
            /\ events' = Append(events, "image_only_prompt_saved")
            /\ main_pc' = "script"
            /\ UNCHANGED main_err
    /\ UNCHANGED <<args, today, run, script_json, script_files, last_run,
                   at_start>>
    /\ UNCHANGED <<restVars, audioVars, ttsVars, videoVars>>

\* the mutant of lines 149-165 that asks the LLM in every run
MainScriptAlwaysAsks ==
    /\ main_pc = "script"
    /\ \E response \in Responses :
         /\ script_json' = response
         /\ script_files' =
                (OutputFile(today, suffix) :> response) @@ script_files
         /\ events' = events \o <<LlmCall(args), "script_saved">>
         /\ main_pc' = "parse"
    /\ UNCHANGED <<args, today, run, main_err, suffix, prompt_files, last_run,
                   at_start>>
    /\ UNCHANGED <<restVars, audioVars, ttsVars, videoVars>>

\* lines 146-165: the script JSON file is read, or the LLM is asked and its
\* response saved; the call of the LLM can fail
MainScript ==
    /\ main_pc = "script"
    /\ LET output_file == OutputFile(today, suffix)
       IN  IF output_file \in DOMAIN script_files
           THEN /\ script_json' = script_files[output_file]
                /\ events' = Append(events, "script_reused")
                /\ main_pc' = "parse"
                /\ UNCHANGED <<main_err, script_files>>
           ELSE \/ \E response \in Responses :
                     /\ script_json' = response
                     /\ script_files' = (output_file :> response) @@ script_files
                     /\ events' = events \o <<LlmCall(args), "script_saved">>
                     /\ main_pc' = "parse"
                     /\ UNCHANGED main_err
                \/ /\ events' = Append(events, LlmCall(args))
                   /\ Raise("invoke_openai")
                   /\ UNCHANGED <<script_json, script_files>>
    /\ UNCHANGED <<args, today, run, suffix, prompt_files, last_run, at_start>>
    /\ UNCHANGED <<restVars, audioVars, ttsVars, videoVars>>

\* lines 168-176: the script is parsed, and its raw_text saved
MainParse ==
    /\ main_pc = "parse"
    /\ LET loaded == JsonLoads(script_json)
       IN  IF ~loaded.ok
           THEN /\ Raise("RuntimeError")
                /\ UNCHANGED <<events, script_data>>
           ELSE IF ~loaded.value.object
           THEN /\ Raise("AttributeError")
                /\ events' = Append(events, "parsed")
                /\ UNCHANGED script_data
           ELSE /\ script_data' =
                      [id |-> 1, raw_text |-> loaded.value.raw_text,
                       paragraphs |-> loaded.value.paragraphs]
                /\ events' = events \o
                      (IF loaded.value.raw_text
                       THEN <<"parsed", "raw_text_saved">>
                       ELSE <<"parsed">>)
                /\ main_pc' = "tts"
                /\ UNCHANGED main_err
    /\ UNCHANGED <<args, today, run, suffix, script_json, script_files,
                   prompt_files, last_run, at_start>>
    /\ UNCHANGED <<restVars, audioVars, videoVars, ti, tts_pc, tts_ret>>

\* lines 179-181: add_tts_to_paragraphs is called unless a paragraph has an
\* audio_file_path
MainTts ==
    /\ main_pc = "tts"
    /\ IF AudioExists(script_data.paragraphs)
       THEN /\ main_pc' = "video"
            /\ UNCHANGED <<ti, tts_pc>>
       ELSE /\ main_pc' = "tts_call"
            /\ ti' = 1
            /\ tts_pc' = "loop"
    /\ UNCHANGED <<args, today, run, main_err, events, suffix, script_json,
                   script_files, prompt_files, last_run, at_start>>
    /\ UNCHANGED <<restVars, audioVars, videoVars, script_data, tts_ret>>

\* line 182: the script with its audio paths is saved; an exception of
\* add_tts_to_paragraphs ends the run
MainSave ==
    /\ main_pc = "tts_call"
    /\ tts_pc \in {"returned", "raised"}
    /\ IF tts_pc = "returned"
       THEN /\ script_files' =
                  (OutputFile(today, suffix) :>
                      JsonDumps(JsonObject(script_data.paragraphs,
                                           script_data.raw_text)))
                      @@ script_files
            /\ events' = Append(events, "script_with_audio_saved")
            /\ main_pc' = "video"
            /\ UNCHANGED main_err
       ELSE /\ Raise(audio_log[Len(audio_log)].outcome)
            /\ UNCHANGED <<script_files, events>>
    /\ UNCHANGED <<args, today, run, suffix, script_json, prompt_files,
                   last_run, at_start>>
    /\ UNCHANGED <<restVars, audioVars, ttsVars, videoVars>>

\* lines 187-190: generate_video_for_paragraphs is called; without an image
\* it is called with background_color, a parameter it does not have
MainVideo ==
    /\ main_pc = "video"
    /\ IF Truthy(args.image_path)
       THEN /\ main_pc' = "video_call"
            /\ text_audio_mapping' = script_data.paragraphs
            /\ video_out' = NoPath
            /\ video_path' = NoPath
            /\ vi' = 1
            /\ clips' = <<>>
            /\ video_pc' = "start"
            /\ video_ret' = NoPath
            /\ UNCHANGED main_err
       ELSE /\ Raise("TypeError")
            /\ UNCHANGED <<text_audio_mapping, video_out, video_path, vi,
                           clips, video_pc, video_ret>>
    /\ UNCHANGED videos
    /\ UNCHANGED <<args, today, run, events, suffix, script_json, script_files,
                   prompt_files, last_run, at_start>>
    /\ UNCHANGED <<restVars, audioVars, ttsVars>>

\* line 191: the run ends, with the exception of
\* generate_video_for_paragraphs if it raised one
MainEnd ==
    /\ main_pc = "video_call"
    /\ video_pc \in {"returned", "raised"}
    /\ IF video_pc = "returned"
       THEN /\ main_pc' = "done"
            /\ events' = Append(events, "video_generated")
            /\ UNCHANGED main_err
       ELSE /\ Raise("RuntimeError")
            /\ UNCHANGED events
    /\ UNCHANGED <<args, today, run, suffix, script_json, script_files,
                   prompt_files, last_run, at_start>>
    /\ UNCHANGED <<restVars, audioVars, ttsVars, videoVars>>

\* the next run, a new process with the same arguments, on the same day or
\* the day after
NewRun ==
    /\ main_pc \in {"done", "raised"}
    /\ run < MaxRuns
    /\ run' = run + 1
    /\ today' \in {today, today + 1}
    /\ main_pc' = "start"
    /\ main_err' = "none"
    /\ events' = <<>>
    /\ suffix' = ""
    /\ script_json' = NoText
    /\ last_run' =
          [day |-> today,
           asked |-> \E i \in DOMAIN events : events[i] = "script_saved",
           saved_audio |->
              /\ \E i \in DOMAIN events : events[i] = "script_with_audio_saved"
              /\ \E i \in DOMAIN script_data.paragraphs :
                    "audio_file_path" \in DOMAIN script_data.paragraphs[i]]
    /\ at_start' = script_files
    /\ posts' = <<>>
    /\ audio_log' = <<>>
    /\ script_data' = NoScriptData
    /\ ti' = 0
    /\ tts_pc' = "idle"
    /\ tts_ret' = 0
    /\ text_audio_mapping' = <<>>
    /\ video_out' = NoPath
    /\ video_path' = NoPath
    /\ vi' = 0
    /\ clips' = <<>>
    /\ video_pc' = "idle"
    /\ video_ret' = NoPath
    /\ videos' = <<>>
    /\ UNCHANGED <<args, script_files, prompt_files>>
    /\ UNCHANGED <<now, tts_env, voice>>
    /\ UNCHANGED restVars

NextMain ==
    \/ Tick
    \/ MainStart
    \/ MainPrompt
    \/ MainScript
    \/ MainParse
    \/ MainTts
    \/ TtsStep
    \/ TtsReturn
    \/ MainSave
    \/ MainVideo
    \/ VideoStart
    \/ VideoStep
    \/ VideoEnd
    \/ MainEnd
    \/ NewRun

SpecMain == InitMain /\ [][NextMain]_vars

Returned == pc = "done"

---------------------------------------------------------------------------
(* Reference definitions the claims are stated with. *)

RECURSIVE Pow26(_)
Pow26(k) == IF k = 0 THEN 1 ELSE 26 * Pow26(k - 1)

RECURSIVE Base26Fixed(_, _)
\* v written with exactly len base-26 digits A..Z (A is zero)
Base26Fixed(v, len) ==
    IF len = 0 THEN <<>>
    ELSE Base26Fixed(v \div 26, len - 1) \o <<Letters[(v % 26) + 1]>>

RECURSIVE BijLabelFrom(_, _, _)
\* the labels of length len start at index first; there are 26^len of them
BijLabelFrom(i, len, first) ==
    IF i < first + Pow26(len) THEN Base26Fixed(i - first, len)
    ELSE BijLabelFrom(i, len + 1, first + Pow26(len))

\* the spreadsheet label of column i: the i-th string over A..Z in the order
\* "shorter first, then alphabetical" (A..Z, AA..ZZ, AAA, ...)
BijLabel(i) == BijLabelFrom(i, 1, 0)

\* the cells of the sheet in row-major order
RowMajor(d) ==
    [c \in 1..(d.nrows * d.ncols) |->
       RowValue(d, ((c - 1) \div d.ncols) + 1, ((c - 1) % d.ncols) + 1)]

\* the string form of a present cell
StringForm(v) == IF v.k = "str" THEN v.s ELSE PyStr(v)

IsPresent(v) == v.k \notin {"nan", "none"}

RECURSIVE KeepFirsts(_, _)
\* the elements of t from position p on that occur at no earlier position
KeepFirsts(t, p) ==
    IF p > Len(t) THEN <<>>
    ELSE (IF \E q \in 1..(p - 1) : t[q] = t[p] THEN <<>> ELSE <<t[p]>>)
         \o KeepFirsts(t, p + 1)

\* trimmed string forms of the present cells, row-major, empties removed
TrimmedTexts(d) ==
    LET present == SelectSeq(RowMajor(d), IsPresent)
        trimmed == [c \in 1..Len(present) |-> Strip(StringForm(present[c]))]
        NonEmpty(x) == x # <<>>
    IN  SelectSeq(trimmed, NonEmpty)

NonEmptyCellCount(d) == Len(SelectSeq(RowMajor(d), IsPresent))

\* the lines of a text: its pieces between line feeds
LinesOf(t) ==
    LET IsLF(p) == t[p] = LF
        lfs == SelectSeq([p \in 1..Len(t) |-> p], IsLF)
        from(l) == IF l = 1 THEN 1 ELSE lfs[l - 1] + 1
        to(l) == IF l = Len(lfs) + 1 THEN Len(t) ELSE lfs[l] - 1
    IN  [l \in 1..(Len(lfs) + 1) |-> SubSeq(t, from(l), to(l))]

\* a column delimiter of a Markdown line: a pipe that is not escaped
IsDelimiter(line, p) ==
    /\ line[p] = PIPE
    /\ p = 1 \/ line[p - 1] # BACKSLASH

\* the positions of the delimiters of a line, in increasing order
Delimiters(line) ==
    LET IsDelim(p) == IsDelimiter(line, p)
    IN  SelectSeq([p \in 1..Len(line) |-> p], IsDelim)

\* the cells of a line: what lies between two successive delimiters, without
\* the one space that follows and the one that precedes a delimiter
CellsOf(line) ==
    LET ds == Delimiters(line)
    IN  [c \in 1..(Len(ds) - 1) |-> SubSeq(line, ds[c] + 2, ds[c + 1] - 2)]

StartsWith(t, pre) == Len(t) >= Len(pre) /\ SubSeq(t, 1, Len(pre)) = pre

EndsWith(t, suf) ==
    Len(t) >= Len(suf) /\ SubSeq(t, Len(t) - Len(suf) + 1, Len(t)) = suf

\* how a number is to be written: an integral value without a fractional
\* part, any other value in its default string form
NumberText(v) ==
    IF v.k = "int" THEN IntStr(v.n)
    ELSE IF v.n % 10 = 0 THEN IntStr(FloatToInt(v.n))
    ELSE FloatStr(v.n)

IsNumber(v) == v.k \in {"int", "float"}

InSeq(x, t) == \E p \in 1..Len(t) : t[p] = x

\* the sheet of the end-to-end scenario, ("Hi", 10) over (blank, 20.5), as
\* pandas holds it (column B is float64); "Hi" stands for "Hello"
ScenarioData ==
    << <<StrVal(<<"H", "i">>), FloatVal(100)>>, <<NaN, FloatVal(205)>> >>

---------------------------------------------------------------------------
(* The claims. *)

\* C1: for every column index 0..MaxIdx, when _col_letter returns, its
\* label is the bijective base-26 spreadsheet label of the index, with
\* label(0) = "A", label(25) = "Z", label(26) = "AA", label(701) = "ZZ" and
\* label(702) = "AAA"; the label is a function of the index alone.
C1_ColLetterIsBijectiveBase26 ==
    lpc = "done" =>
        /\ s = BijLabel(idx)
        /\ idx = 0 => s = <<"A">>
        /\ idx = 25 => s = <<"Z">>
        /\ idx = 26 => s = <<"A", "A">>
        /\ idx = 701 => s = <<"Z", "Z">>
        /\ idx = 702 => s = <<"A", "A", "A">>

C1_Witness == lpc = "done" /\ idx = 702 /\ s = <<"A", "A", "A">>

\* C2: the returned flat_text holds no empty string, no whitespace-only
\* string and no two equal entries.
C2_FlatTextNoEmptyNoDuplicate ==
    Returned =>
        LET ft == result.flat_text
        IN  /\ \A p \in 1..Len(ft) : ft[p] # <<>> /\ Strip(ft[p]) # <<>>
            /\ \A p, q \in 1..Len(ft) : p # q => ft[p] # ft[q]

\* a sheet with two cells equal after trimming and a whitespace-only cell
C2_Witness ==
    /\ Returned
    /\ df.data = << <<StrVal(<<SP, "H", "i">>), StrVal(<<"H", "i">>),
                      StrVal(<<CR, CR, LF>>)>> >>
    /\ result.flat_text = << <<"H", "i">> >>

\* C3: the returned flat_text is the row-major sequence of the trimmed
\* string forms of the present cells, empty strings removed, only the first
\* occurrence of each string kept; so it is no longer than the number of
\* non-empty cells.
C3_FlatTextIsRowMajorFirstOccurrences ==
    Returned =>
        /\ result.flat_text = KeepFirsts(TrimmedTexts(df), 1)
        /\ Len(result.flat_text) <= NonEmptyCellCount(df)

\* a 2 x 2 sheet whose second row repeats, after trimming, a text of the first
C3_Witness ==
    /\ Returned
    /\ df.data = << <<StrVal(<<"H", "i">>), StrVal(<<"a", PIPE, "b", LF, "c">>)>>,
                    <<StrVal(<<SP, "H", "i">>), IntVal(10)>> >>
    /\ result.flat_text =
          << <<"H", "i">>, <<"a", PIPE, "b", LF, "c">>, <<"1", "0">> >>


\* C4: the claim as stated: every numeric cell is written in flat_text and in
\* its Markdown cell without a fractional part when its value is integral
\* and in its default string form otherwise; the scenario sheet yields
\* flat_text = ["Hi", "10", "20.5"].  The code writes 10.0 as "10.0" in
\* flat_text (str(val), line 168), so this is violated.
C4_NumbersWrittenLikeExcel ==
    Returned =>
        LET lines == LinesOf(result.markdown)
        IN  /\ \A i \in 1..df.nrows : \A j \in 1..df.ncols :
                 IsNumber(df.data[i][j]) =>
                    /\ InSeq(NumberText(df.data[i][j]), result.flat_text)
                    /\ Strip(CellsOf(lines[i + 2])[j]) = NumberText(df.data[i][j])
            /\ df.data = ScenarioData =>
                 result.flat_text =
                    << <<"H", "i">>, <<"1", "0">>, <<"2", "0", ".", "5">> >>

\* C4, the Markdown half alone (this half holds of the code)
C4_MarkdownNumbersWrittenLikeExcel ==
    Returned =>
        LET lines == LinesOf(result.markdown)
        IN  \A i \in 1..df.nrows : \A j \in 1..df.ncols :
              IsNumber(df.data[i][j]) =>
                 Strip(CellsOf(lines[i + 2])[j]) = NumberText(df.data[i][j])

\* what the code returns for the scenario sheet
C4_CodeOnScenario ==
    /\ Returned
    /\ df.data = ScenarioData
    /\ result.flat_text =
          << <<"H", "i">>, <<"1", "0", ".", "0">>, <<"2", "0", ".", "5">> >>


\* the width the table is to give column j: 3 at least, and the length of
\* the longest rendered cell of the column
ColumnWidth(d, j) ==
    LET lens == {Len(Stringify(RowValue(d, i, j))) : i \in 1..d.nrows}
    IN  CHOOSE w \in lens \cup {3} : \A x \in lens \cup {3} : x <= w

\* a column is uniformly numeric when it holds no text: each of its cells is
\* a number or blank
UniformlyNumeric(d, j) == \A i \in 1..d.nrows : d.data[i][j].k # "str"

HasCell(d, Test(_)) ==
    \E i \in 1..d.nrows : \E j \in 1..d.ncols : Test(d.data[i][j])

HasPipe(v) == v.k = "str" /\ InSeq(PIPE, v.s)

\* C5: the returned Markdown has exactly R + 2 lines for a sheet of R rows
\* (R = 0 and cells with CR, LF or CRLF included): a header line of blanks,
\* a separator line, then one line per row, in the order of the rows.
C5_MarkdownHasRowsPlusTwoLines ==
    Returned =>
        LET lines == LinesOf(result.markdown)
        IN  /\ Len(lines) = df.nrows + 2
            /\ ~InSeq(CR, result.markdown)
            /\ \A p \in 1..Len(lines[1]) : lines[1][p] \in {PIPE, SP}
            /\ \A p \in 1..Len(lines[2]) : lines[2][p] \in {PIPE, SP, "-", ":"}
            /\ \A i \in 1..df.nrows : \A j \in 1..df.ncols :
                 Strip(CellsOf(lines[i + 2])[j])
                    = Strip(Stringify(RowValue(df, i, j)))

\* a two-row sheet with an LF in one cell and CR, CRLF in another
C5_Witness ==
    /\ Returned
    /\ df.data = << <<StrVal(<<"a", PIPE, "b", LF, "c">>)>>,
                    <<StrVal(<<CR, CR, LF>>)>> >>
    /\ Len(LinesOf(result.markdown)) = 4

\* C6 as stated: every line of the returned Markdown has exactly
\* len(columns) + 1 column delimiters, C = 0 included.  The empty sheet
\* yields the two lines "|  |", with 2 delimiters each and not 1.
C6_Original_PipesAreColumnsPlusOne ==
    Returned =>
        LET lines == LinesOf(result.markdown)
        IN  \A l \in 1..Len(lines) : Len(Delimiters(lines[l])) = df.ncols + 1

\* C6, amended: for every sheet with C >= 1 columns (cells with pipes
\* included) every line of the returned Markdown has exactly C + 1 column
\* delimiters, so C cells; for the empty sheet (C = 0) each of the two lines
\* is "|  |", with 2 delimiters.
C6_PipesAreColumnsPlusOne ==
    Returned =>
        LET lines == LinesOf(result.markdown)
        IN  /\ df.ncols >= 1 =>
                 \A l \in 1..Len(lines) :
                    /\ Len(Delimiters(lines[l])) = df.ncols + 1
                    /\ Len(CellsOf(lines[l])) = df.ncols
            /\ df.ncols = 0 =>
                 \A l \in 1..Len(lines) : lines[l] = <<PIPE, SP, SP, PIPE>>

\* a two-column sheet with a pipe in a cell
C6_Witness ==
    /\ Returned
    /\ df.ncols = 2
    /\ HasCell(df, HasPipe)
    /\ Len(Delimiters(LinesOf(result.markdown)[3])) = 3

\* C7: every line of the returned Markdown starts with "| " and ends
\* with " |".
C7_LinesStartAndEndWithPipe ==
    Returned =>
        LET lines == LinesOf(result.markdown)
        IN  \A l \in 1..Len(lines) :
              /\ StartsWith(lines[l], <<PIPE, SP>>)
              /\ EndsWith(lines[l], <<SP, PIPE>>)

C7_Witness ==
    /\ Returned
    /\ df.nrows = 2
    /\ df.ncols = 2
    /\ Len(LinesOf(result.markdown)) = 4
    /\ StartsWith(LinesOf(result.markdown)[4], <<PIPE, SP>>)
    /\ EndsWith(LinesOf(result.markdown)[4], <<SP, PIPE>>)

\* C8: in the returned Markdown the header cell, the separator cell and
\* every body cell of column j are exactly max(3, longest rendered cell of
\* the column) characters wide, and all lines have the same length.
C8_CellsHaveColumnWidth ==
    Returned =>
        LET lines == LinesOf(result.markdown)
        IN  /\ \A j \in 1..df.ncols :
                 LET w == ColumnWidth(df, j)
                 IN  \A l \in 1..Len(lines) : Len(CellsOf(lines[l])[j]) = w
            /\ \A l \in 1..Len(lines) : Len(lines[l]) = Len(lines[1])

\* a sheet with a column narrower than 3 and a column wider than 3
C8_Witness ==
    /\ Returned
    /\ df.data = << <<StrVal(<<"H", "i">>), StrVal(<<"a", PIPE, "b", LF, "c">>)>>,
                    <<IntVal(10), NaN>> >>
    /\ ColumnWidth(df, 1) = 3
    /\ ColumnWidth(df, 2) = 9
    /\ Len(LinesOf(result.markdown)[3]) = 19

\* C9: the body cells of a column are right-justified when the column is
\* uniformly numeric (blank cells and entirely blank columns included) and
\* left-justified otherwise, and the separator cell carries the colon of
\* right alignment in just that case; in the scenario sheet column A is
\* left-aligned and column B right-aligned.
C9_RightAlignedIffNumeric ==
    Returned =>
        LET lines == LinesOf(result.markdown)
        IN  /\ \A j \in 1..df.ncols :
                 LET w == Len(CellsOf(lines[2])[j])
                     right == UniformlyNumeric(df, j)
                 IN  /\ EndsWith(CellsOf(lines[2])[j], <<":">>) <=> right
                     /\ \A i \in 1..df.nrows :
                          CellsOf(lines[i + 2])[j] =
                             IF right THEN RJust(Stringify(RowValue(df, i, j)), w)
                             ELSE LJust(Stringify(RowValue(df, i, j)), w)
            /\ df.data = ScenarioData =>
                 /\ CellsOf(lines[3]) = << <<"H", "i", SP>>, <<SP, SP, "1", "0">> >>
                 /\ CellsOf(lines[4]) = << <<SP, SP, SP>>, <<"2", "0", ".", "5">> >>

\* the scenario sheet, returned
C9_Witness ==
    /\ Returned
    /\ df.data = ScenarioData
    /\ CellsOf(LinesOf(result.markdown)[2]) = << <<"-", "-", "-">>, <<"-", "-", "-", ":">> >>

\* C10: in the separator line the cell of a left-aligned column of width w
\* is w dashes and the cell of a right-aligned column is w - 1 dashes and a
\* colon; every cell of the header line is blank.
C10_SeparatorAndBlankHeader ==
    Returned =>
        LET lines == LinesOf(result.markdown)
        IN  \A j \in 1..df.ncols :
              LET w == ColumnWidth(df, j)
              IN  /\ CellsOf(lines[2])[j] =
                        IF UniformlyNumeric(df, j)
                        THEN Repeat("-", w - 1) \o <<":">>
                        ELSE Repeat("-", w)
                  /\ CellsOf(lines[1])[j] = Repeat(SP, w)

\* a left-aligned column of width 8 beside a right-aligned one of width 4
C10_Witness ==
    /\ Returned
    /\ df.data = << <<StrVal(<<CR, CR, LF>>), FloatVal(205)>> >>
    /\ LinesOf(result.markdown)[2] =
          <<PIPE, SP, "-", "-", "-", "-", "-", "-", "-", "-", SP, PIPE, SP,
            "-", "-", "-", ":", SP, PIPE>>
    /\ LinesOf(result.markdown)[1] =
          <<PIPE, SP, SP, SP, SP, SP, SP, SP, SP, SP, SP, PIPE, SP,
            SP, SP, SP, SP, SP, PIPE>>

---------------------------------------------------------------------------
(* Pipes and line breaks inside cells. *)

\* the number of occurrences of the character c in t
CountChar(t, c) == Cardinality({p \in 1..Len(t) : t[p] = c})

\* the number of places of t where pat starts
CountAt(t, pat) == Cardinality({p \in 1..Len(t) : StartsWithAt(t, p, pat)})

\* the number of line breaks of a text: every LF, and every CR that is not
\* the first half of a CRLF
BreakCount(t) ==
    Cardinality({p \in 1..Len(t) :
                   \/ t[p] = LF
                   \/ t[p] = CR /\ ~(p < Len(t) /\ t[p + 1] = LF)})

RECURSIVE OnePassFrom(_, _)
\* the text from position p on, read once from left to right: a pipe
\* becomes backslash-pipe, a CRLF, a lone CR or an LF becomes "<br>"
OnePassFrom(t, p) ==
    IF p > Len(t) THEN <<>>
    ELSE IF t[p] = PIPE THEN <<BACKSLASH, PIPE>> \o OnePassFrom(t, p + 1)
    ELSE IF t[p] = CR /\ p < Len(t) /\ t[p + 1] = LF
         THEN BR \o OnePassFrom(t, p + 2)
    ELSE IF t[p] \in {CR, LF} THEN BR \o OnePassFrom(t, p + 1)
    ELSE <<t[p]>> \o OnePassFrom(t, p + 1)

OnePass(t) == OnePassFrom(t, 1)

RECURSIVE SumOver(_, _)
\* f[1] + ... + f[k]
SumOver(f, k) == IF k = 0 THEN 0 ELSE f[k] + SumOver(f, k - 1)

\* the content of cell (i, j) as a text; a blank cell has none
ContentOf(d, i, j) ==
    IF IsPresent(d.data[i][j]) THEN StringForm(RowValue(d, i, j)) ELSE <<>>

HasText(d, t) == \E i \in 1..d.nrows : \E j \in 1..d.ncols : d.data[i][j] = StrVal(t)

Contains(t, pat) == CountAt(t, pat) > 0

\* C11: every pipe of a cell's content is rendered in the Markdown as the two
\* characters backslash-pipe: body line i has one pipe and one backslash
\* more for every pipe in the cells of row i, each of these pipes has the
\* backslash right before it, and the pipes that have none are the C + 1
\* column delimiters (2 for the sheet without columns).
C11_ContentPipesAreEscaped ==
    Returned =>
        LET lines == LinesOf(result.markdown)
        IN  \A i \in 1..df.nrows :
              LET line == lines[i + 2]
                  cells == CellsOf(line)
                  inCells == SumOver([j \in 1..df.ncols |->
                                 CountChar(ContentOf(df, i, j), PIPE)], df.ncols)
                  delims == IF df.ncols = 0 THEN 2 ELSE df.ncols + 1
              IN  /\ CountChar(line, PIPE) = delims + inCells
                  /\ CountAt(line, <<BACKSLASH, PIPE>>) = inCells
                  /\ CountChar(line, BACKSLASH) = inCells
                  /\ Len(Delimiters(line)) = delims
                  /\ \A j \in 1..df.ncols :
                       df.data[i][j].k = "str" =>
                         Strip(cells[j]) = Strip(OnePass(ContentOf(df, i, j)))

\* the cell "a|b" + LF + "c" is rendered as a\|b<br>c
C11_Witness ==
    /\ Returned
    /\ df.ncols = 2
    /\ HasText(df, <<"a", PIPE, "b", LF, "c">>)
    /\ Contains(result.markdown,
                <<SP, "a", BACKSLASH, PIPE, "b", "<", "b", "r", ">", "c", SP>>)

\* C12: every line break of a cell's content (an LF, a CR, or a CRLF counted
\* once) is rendered in the Markdown as one "<br>": body line i has as many
\* "<br>" as the cells of row i have line breaks, no line holds a CR, and
\* the only LFs of the Markdown are the R + 1 that separate its lines.
C12_LineBreaksBecomeBr ==
    Returned =>
        LET lines == LinesOf(result.markdown)
        IN  /\ CountChar(result.markdown, LF) = df.nrows + 1
            /\ CountChar(result.markdown, CR) = 0
            /\ \A i \in 1..df.nrows :
                 LET cells == CellsOf(lines[i + 2])
                 IN  /\ CountAt(lines[i + 2], BR)
                          = SumOver([j \in 1..df.ncols |->
                                       BreakCount(ContentOf(df, i, j))], df.ncols)
                     /\ \A j \in 1..df.ncols :
                          /\ ~InSeq(LF, cells[j]) /\ ~InSeq(CR, cells[j])
                          /\ CountAt(cells[j], BR)
                               = BreakCount(ContentOf(df, i, j))

\* the cell CR CR LF holds two line breaks and is rendered as <br><br>
C12_Witness ==
    /\ Returned
    /\ df.nrows = 2
    /\ HasText(df, <<CR, CR, LF>>)
    /\ HasText(df, <<"a", PIPE, "b", LF, "c">>)
    /\ Contains(result.markdown, <<PIPE, SP>> \o BR \o BR \o <<SP, PIPE>>)

---------------------------------------------------------------------------
(* The row records. *)

\* the number a value stands for, in tenths
TenthsOf(v) == IF v.k = "int" THEN v.n * 10 ELSE v.n

\* Python's ==, between a stored value and a cell of the sheet: texts are
\* equal when they have the same characters, numbers when they have the
\* same value (10.0 == 10); None equals only None
PyEq(a, b) ==
    IF IsNumber(a) /\ IsNumber(b) THEN TenthsOf(a) = TenthsOf(b)
    ELSE a = b

\* the record the claim gives a row of the sheet: every label with the raw
\* value of its cell, None for a blank
RecordMatches(rec, labels, row) ==
    /\ DOMAIN rec = {labels[j] : j \in 1..Len(labels)}
    /\ \A j \in 1..Len(labels) :
         IF row[j] = NaN THEN rec[labels[j]] = None
         ELSE PyEq(rec[labels[j]], row[j])

\* C13: the returned rows are one record per row of the sheet, in the order
\* of the rows; the keys of every record are exactly the column labels
\* A, B, ...; the value of a present cell is its raw value (a text with its
\* surrounding spaces, a number with its value) and the value of a blank
\* cell is None.
C13_RowRecordsHoldRawValues ==
    Returned =>
        LET g == disk.grid
        IN  /\ Len(result.columns) = NCols(g)
            /\ \A j \in 1..NCols(g) : result.columns[j] = BijLabel(j - 1)
            /\ Len(result.rows) = NRows(g)
            /\ \A i \in 1..NRows(g) :
                 RecordMatches(result.rows[i], result.columns, g[i])

\* the sheet [("Hi", 10), (blank, 20.5)] gives the columns A, B and the rows
\* {A: "Hi", B: 10}, {A: None, B: 20.5} (B of row 1 is held as the float
\* 10.0, which equals 10)
C13_Witness ==
    /\ Returned
    /\ disk.grid = << <<StrVal(<<"H", "i">>), IntVal(10)>>,
                      <<NaN, FloatVal(205)>> >>
    /\ result.columns = << <<"A">>, <<"B">> >>
    /\ result.rows =
         << (<<"A">> :> StrVal(<<"H", "i">>)) @@ (<<"B">> :> FloatVal(100)),
            (<<"A">> :> None) @@ (<<"B">> :> FloatVal(205)) >>

---------------------------------------------------------------------------
(* Non-finite floats. *)

IsInf(v) == v.k = "inf"

IsBlankText(t) == \A p \in 1..Len(t) : t[p] = SP

\* the cell of row i, column j, as the returned Markdown shows it
MarkdownCell(i, j) == CellsOf(LinesOf(result.markdown)[i + 2])[j]

\* C14 as stated: a NaN and an infinite cell alike contribute no entry to
\* flat_text and give a blank Markdown cell.  An infinite cell gives the
\* entry and the cell "inf" or "-inf".
C14_Original_NonFiniteIsEmpty ==
    Returned =>
        \A i \in 1..df.nrows : \A j \in 1..df.ncols :
            LET v == disk.grid[i][j]
            IN  (v = NaN \/ IsInf(v)) =>
                  /\ IsBlankText(MarkdownCell(i, j))
                  /\ ~InSeq(PyStr(v), result.flat_text)

\* C14, amended: a NaN cell is treated as empty: it contributes no entry to
\* flat_text and gives a blank Markdown cell.  An infinite cell is not: it
\* contributes the entry "inf" or "-inf" and is shown as that text.  Every
\* other value is shown by the stringification rule: a number as C4 has it,
\* a text with its pipes and line breaks replaced.
C14_NanIsEmptyInfIsText ==
    Returned =>
        \A i \in 1..df.nrows : \A j \in 1..df.ncols :
            LET v == disk.grid[i][j]
                c == MarkdownCell(i, j)
            IN  /\ v = NaN =>
                     /\ IsBlankText(c)
                     /\ ~InSeq(PyStr(v), result.flat_text)
                /\ IsInf(v) =>
                     /\ Strip(c) = PyStr(v)
                     /\ InSeq(PyStr(v), result.flat_text)
                /\ IsNumber(v) => Strip(c) = NumberText(v)
                /\ v.k = "str" => Strip(c) = Strip(OnePass(v.s))

\* a sheet with a NaN, an inf and a -inf
C14_Witness ==
    /\ Returned
    /\ disk.grid = << <<NaN, PosInf, NegInf>> >>
    /\ result.flat_text = << <<"i", "n", "f">>, <<"-", "i", "n", "f">> >>
    /\ IsBlankText(MarkdownCell(1, 1))
    /\ MarkdownCell(1, 3) = <<"-", "i", "n", "f">>

---------------------------------------------------------------------------
(* The call and its surroundings. *)

\* the positions of a call of extract_sheet_text that has not ended
InExtract == pc \in {"read", "rows", "markdown", "return"}

BackendFor(ext) ==
    IF ext \in {XLSX, <<".", "X", "L", "S", "X">>,
                XLSM, <<".", "x", "L", "s", "M">>} THEN "openpyxl"
    ELSE IF ext \in {XLS, <<".", "X", "l", "s">>} THEN "xlrd"
    ELSE "None"

\* C17: when the file is missing or is no workbook, or sheet_name names no
\* sheet of it, extract_sheet_text raises the reader's error at its one
\* read: it has then built no columns, rows, flat_text or markdown and
\* returns nothing, and it has read once; a call that gets past the read
\* had a workbook with the sheet.
C17_ReaderErrorLeavesNothing ==
    /\ pc = "raised" =>
         /\ err \in {"FileNotFoundError", "ReaderError", "ValueError"}
         /\ disk.kind = "missing" => err = "FileNotFoundError"
         /\ disk.kind = "garbage" => err = "ReaderError"
         /\ result = NoResult
         /\ df = NoDf
         /\ column_labels = <<>> /\ rows = <<>> /\ flat = <<>> /\ markdown = <<>>
         /\ reads = 1
    /\ pc \in {"rows", "markdown", "return", "done"} =>
         /\ disk.kind \notin {"missing", "garbage"}
         /\ sheet_name \in disk.sheets
         /\ err = "none"
         /\ reads = 1

\* a workbook without the sheet asked for
C17_Witness ==
    /\ pc = "raised"
    /\ disk.kind = "xlsx"
    /\ sheet_name = "Other"
    /\ err = "ValueError"
    /\ result = NoResult

\* C18: in extract_sheet_text and in export_sheet_pdf alike the engine is
\* the one the extension of excel_path gives, whatever the case of its
\* letters, the file and the sheet name: openpyxl for .xlsx and .xlsm, xlrd
\* for .xls, None for any other extension and for none.
C18_EngineFromExtension ==
    engine # "unset" =>
        \A r \in PathTable : r.path = excel_path => engine = BackendFor(r.ext)

\* export_sheet_pdf on a path that ends in .XLSX, in a directory with a dot
C18_Witness ==
    /\ pc = "export_write"
    /\ excel_path = <<"d", ".", "v", "/", "b", ".", "X", "L", "S", "X">>
    /\ engine = "openpyxl"

---------------------------------------------------------------------------
(* The length of the labels. *)

\* the indices where the labels get one letter longer: 26, 26 + 26^2, ...
\* (the first labels AA, AAA, ...)
IsFirstOfItsLength(i) == \E len \in 1..3 : i = SumOver([k \in 1..len |-> Pow26(k)], len)

\* C19 as stated: whenever idx is a multiple of 26, from 26 on, its label is
\* strictly longer than the label of idx - 1.  The labels of 51 and 52 are
\* AZ and BA.
C19_Original_LongerAtEveryMultipleOf26 ==
    (lpc = "done" /\ idx >= 26 /\ idx % 26 = 0) =>
        Len(s) > Len(ColLetter(idx - 1))

\* C19, amended: the label of idx is never shorter than the label of
\* idx - 1, and it is longer, by one letter, exactly when idx is 26 or 702
\* (the labels AA and AAA, after Z and ZZ); at every other multiple of 26
\* the two labels have the same length.
C19_LongerExactlyAtFirstOfLength ==
    (lpc = "done" /\ idx >= 1) =>
        LET before == Len(ColLetter(idx - 1))
        IN  IF IsFirstOfItsLength(idx) THEN Len(s) = before + 1
            ELSE Len(s) = before

\* the label of 702 is AAA, one letter longer than ZZ, the label of 701
C19_Witness ==
    /\ lpc = "done"
    /\ idx = 702
    /\ Len(s) = 3
    /\ ColLetter(701) = <<"Z", "Z">>
    /\ IsFirstOfItsLength(702)

---------------------------------------------------------------------------
(* invoke_openai_with_image_and_pdf. *)

\* the run "import core.generate_script_json, then call
\* invoke_openai_with_image_and_pdf" is over: the import has raised.  (A call
\* that has returned or raised would end the run as well; the compiler
\* rejects the source, so no run gets to the call.)
RunOver == module = "IndentationError"

\* the exception the run has ended with
Raised == IF module = "IndentationError" THEN "IndentationError" ELSE "none"

\* C20 as stated: when the run is over, with the four variables set one
\* chat-completion request has been made (with the image_url and the
\* input_pdf part, its first choice returned), and with any of them unset
\* the run has raised RuntimeError and no request has been made.  Every run
\* ends at the import, with an IndentationError and without a request.
C20_OneRequestOrRuntimeError ==
    RunOver =>
        IF environ = EnvNames
        THEN requests = 1 /\ Raised = "none"
        ELSE requests = 0 /\ Raised = "RuntimeError"

\* what the code does: the import stops at line 163, whatever is set
C20_CodeStopsAtLine163 ==
    RunOver => SourceLines[src_line].no = 163 /\ requests = 0

---------------------------------------------------------------------------
(* The audio files. *)

\* the calls of audio_log that returned a path
ReturnedCalls == {i \in 1..Len(audio_log) : ReturnedPath(audio_log[i])}

\* C26 as stated: of the calls of generate_audio_from_script that returned a
\* path, any two returned different paths, each wrote the file it returned,
\* and that file holds the audio of the call's own script.  Two calls within
\* one clock second get the same path; the second returns the file of the
\* first without a request.
C26_EachCallReturnsItsOwnAudio ==
    /\ \A i \in ReturnedCalls : \A j \in ReturnedCalls :
         i # j => audio_log[i].path # audio_log[j].path
    /\ \A i \in ReturnedCalls :
         /\ audio_log[i].outcome = "written"
         /\ voice.files[audio_log[i].path] = audio_log[i].script

\* what the code does: calls that returned within the same clock second
\* returned the same path, and no file is ever overwritten: a file holds the
\* script of the first call that returned its path, or was there before
C26_CodeSharesPathWithinSecond ==
    /\ \A i \in ReturnedCalls : \A j \in ReturnedCalls :
         Timestamp(audio_log[i].at) = Timestamp(audio_log[j].at)
            <=> audio_log[i].path = audio_log[j].path
    /\ \A i \in ReturnedCalls :
         audio_log[i].outcome = "written" =>
            voice.files[audio_log[i].path] = audio_log[i].script

\* C23 as stated: when add_tts_to_paragraphs has returned, every paragraph
\* has an audio_file_path, generate_audio_from_script was called once for
\* each paragraph in list order, and the returned dict is the dict passed
\* in.  A paragraph whose audio_script is empty or missing is passed over.
C23_EveryParagraphGetsAudio ==
    tts_pc = "returned" =>
        LET ps == script_data.paragraphs
        IN  /\ \A i \in 1..Len(ps) : "audio_file_path" \in DOMAIN ps[i]
            /\ Len(audio_log) = Len(ps)
            /\ \A i \in 1..Len(ps) :
                 audio_log[i].script = Get(ps[i], "audio_script", "")
            /\ tts_ret = script_data.id

\* the paragraphs that have a script to speak
HasScript(para) == Get(para, "audio_script", "") # ""

\* what the code does: the paragraphs with a non-empty audio_script, and
\* only these, get an audio_file_path, by one call each in list order; the
\* dict passed in is returned
C23_CodeSkipsEmptyScripts ==
    tts_pc = "returned" =>
        LET ps == script_data.paragraphs
            spoken == SelectSeq(ps, HasScript)
        IN  /\ \A i \in 1..Len(ps) :
                 "audio_file_path" \in DOMAIN ps[i] <=> HasScript(ps[i])
            /\ Len(audio_log) = Len(spoken)
            /\ \A k \in 1..Len(spoken) :
                 /\ audio_log[k].script = spoken[k]["audio_script"]
                 /\ audio_log[k].path = spoken[k]["audio_file_path"]
            /\ tts_ret = script_data.id


\* the failing run: two calls in the same second with different scripts; the
\* second is handed the file that holds the audio of the first, and one
\* request was sent
C26_TwoCallsOneFile ==
    /\ Len(audio_log) = 2
    /\ audio_log[1].script = "s1" /\ audio_log[1].outcome = "written"
    /\ audio_log[2].script = "s2" /\ audio_log[2].outcome = "reused"
    /\ audio_log[2].path = audio_log[1].path
    /\ voice.files[audio_log[2].path] = "s1"
    /\ posts = <<"s1">>


---------------------------------------------------------------------------
(* The video. *)

\* the paragraph has an audio_file_path that is set and names a file of the
\* audio folder
HasAudio(para) ==
    /\ "audio_file_path" \in DOMAIN para
    /\ para["audio_file_path"] # NoPath
    /\ para["audio_file_path"] \in DOMAIN voice.files

\* the paragraphs the for loop has gone through
Visited == 1..(vi - 1)

\* C24: generate_video_for_paragraphs builds one clip for each paragraph
\* whose audio_file_path is set and names an existing file, in the order of
\* the paragraphs, and passes over every other paragraph; when no paragraph
\* yields a clip it raises RuntimeError and writes no video; otherwise it
\* writes exactly one video, made of these clips, and returns its path: the
\* output_path given, or a timestamped path in VIDEO_OUTPUT_FOLDER
C24_ClipsFromExistingAudio ==
    /\ video_pc \in {"start", "loop"} => videos = <<>> /\ video_ret = NoPath
    /\ video_pc \in {"loop", "returned", "raised"} =>
         /\ {clips[j].para : j \in DOMAIN clips} =
                {i \in Visited : HasAudio(text_audio_mapping[i])}
         /\ \A j, k \in DOMAIN clips : j < k => clips[j].para < clips[k].para
         /\ \A j \in DOMAIN clips :
              clips[j].audio =
                  text_audio_mapping[clips[j].para]["audio_file_path"]
    /\ video_pc = "raised" =>
         /\ Visited = DOMAIN text_audio_mapping
         /\ \A i \in Visited : ~HasAudio(text_audio_mapping[i])
         /\ videos = <<>>
         /\ video_ret = NoPath
    /\ video_pc = "returned" =>
         /\ Visited = DOMAIN text_audio_mapping
         /\ \E i \in Visited : HasAudio(text_audio_mapping[i])
         /\ videos = <<[path |-> video_ret, clips |-> clips]>>
         /\ IF video_out # NoPath
            THEN video_ret = video_out
            ELSE \E stamp \in 0..Timestamp(now) : video_ret = VideoPath(stamp)

\* two paragraphs, the first naming a file that does not exist: the video has
\* the clip of the second alone and is written to a timestamped path
C24_Witness ==
    /\ video_pc = "returned"
    /\ Len(text_audio_mapping) = 2
    /\ text_audio_mapping[1] = ("audio_file_path" :> AudioPath(1))
    /\ voice = OldVoice
    /\ clips = <<[para |-> 2, audio |-> AudioPath(0)]>>
    /\ video_out = NoPath
    /\ video_ret = VideoPath(1)


---------------------------------------------------------------------------
(* The runs of main. *)

\* an argument is given: it is neither None nor empty
Given(arg) == arg # "None" /\ arg # ""

\* the calls of the LLM
LlmCalls ==
    {"invoke_openai_with_image_and_pdf", "invoke_openai_with_image",
     "invoke_openai"}

\* the places of the run's events that are calls of the LLM
Asked == {i \in DOMAIN events : events[i] \in LlmCalls}

\* the run has got past the stage
PastPrompt == main_pc \in {"script", "parse", "tts", "tts_call", "video",
                           "video_call", "done"}
PastParse == main_pc \in {"tts", "tts_call", "video", "video_call", "done"}

\* the script JSON file of the run
ScriptFile == OutputFile(today, SuffixOf(args))

\* C25: main uses the Excel+image prompt exactly when excel_path and
\* sheet_name are both given, else the image-only prompt; a call of the LLM
\* sends the image and the PDF exactly when pdf_path and image_path are both
\* given, the image alone when only image_path is given, and text alone
\* otherwise; and a given image_path or pdf_path that does not exist ends
\* the run with FileNotFoundError before a prompt file is written and before
\* any call of the LLM or of the TTS
C25_PromptAndCallFromArguments ==
    LET both == Given(args.excel_path) /\ Given(args.sheet_name)
        prompts == {events[i] : i \in DOMAIN events} \cap
                       {"excel_image_prompt_saved", "image_only_prompt_saved"}
    IN  /\ prompts \subseteq
               (IF both THEN {"excel_image_prompt_saved"}
                        ELSE {"image_only_prompt_saved"})
        /\ PastPrompt => prompts # {}
        /\ \A i \in Asked :
             /\ events[i] = "invoke_openai_with_image_and_pdf" <=>
                    (Given(args.pdf_path) /\ Given(args.image_path))
             /\ events[i] = "invoke_openai_with_image" <=>
                    (Given(args.image_path) /\ ~Given(args.pdf_path))
             /\ events[i] = "invoke_openai" <=> ~Given(args.image_path)
        /\ (args.image_path = "missing" \/ args.pdf_path = "missing") =>
             /\ main_pc \in {"start", "raised"}
             /\ main_pc = "raised" => main_err = "FileNotFoundError"
             /\ events = <<>>
             /\ prompt_files = {}
             /\ audio_log = <<>>
             /\ posts = <<>>

\* with a workbook, a sheet, an image and a PDF the Excel+image prompt is
\* saved and the LLM is sent the image and the PDF
C25_Witness ==
    /\ args = [image_path |-> "file", pdf_path |-> "file",
               excel_path |-> "book", sheet_name |-> "Sheet1"]
    /\ Len(events) >= 3
    /\ events[2] = "excel_image_prompt_saved"
    /\ events[3] = "invoke_openai_with_image_and_pdf"
    /\ PromptFile(today, "prompt_book_Sheet1.txt") \in prompt_files


\* the run is on the date of the run before it
SameDate == run > 1 /\ last_run.day = today

\* the place of an event among the run's events, 0 when it is not there
Place(e) ==
    IF \E i \in DOMAIN events : events[i] = e
    THEN CHOOSE i \in DOMAIN events : events[i] = e
    ELSE 0

\* C21: the script JSON file is a cache.  In runs with the same arguments on
\* the same date the LLM is called in a run only if the script JSON file of
\* the suffix did not exist, at most once in a run, and its response is in
\* that file before it is parsed; every later run reads the file and calls
\* no LLM, and when the saved response is not valid JSON each later run ends
\* with RuntimeError
C21_ScriptFileIsCache ==
    /\ Cardinality(Asked) <= 1
    /\ Asked # {} => ScriptFile \notin DOMAIN at_start
    /\ \A i \in Asked :
         /\ main_pc = "parse" =>
              /\ ScriptFile \in DOMAIN script_files
              /\ script_files[ScriptFile] = script_json
         /\ Place("parsed") > 0 =>
              /\ Place("script_saved") = i + 1
              /\ Place("parsed") > i + 1
    /\ (SameDate /\ last_run.asked) => ScriptFile \in DOMAIN at_start
    /\ (SameDate /\ ScriptFile \in DOMAIN at_start) =>
         /\ Asked = {}
         /\ ScriptFile \in DOMAIN script_files
         /\ (PastPrompt /\ main_pc # "script") => Place("script_reused") > 0
         /\ main_pc \in {"parse", "tts"} => script_json = at_start[ScriptFile]
         /\ ~at_start[ScriptFile].json =>
              /\ ~PastParse
              /\ (main_pc = "raised" /\ Place("script_reused") > 0) =>
                     main_err = "RuntimeError"

\* the second run on a date finds the response the first run saved, which is
\* not valid JSON: it calls no LLM and ends with RuntimeError
C21_Witness ==
    /\ run = 2
    /\ SameDate
    /\ last_run.asked
    /\ ScriptFile \in DOMAIN script_files
    /\ ~script_files[ScriptFile].json
    /\ Place("script_reused") > 0
    /\ main_pc = "raised"
    /\ main_err = "RuntimeError"

\* the script has an audio_file_path on a paragraph
HasAudioPath(ps) == \E i \in DOMAIN ps : "audio_file_path" \in DOMAIN ps[i]

\* the script the run has loaded has an audio_file_path on a paragraph
LoadedWithAudio ==
    /\ PastParse
    /\ script_json.json
    /\ script_json.value.object
    /\ HasAudioPath(script_json.value.paragraphs)

\* no TTS request is made and the script JSON file is as it was loaded
NoTtsNoRewrite ==
    /\ posts = <<>>
    /\ audio_log = <<>>
    /\ Place("script_with_audio_saved") = 0
    /\ script_files[ScriptFile] = script_json

\* the script of the run has the audio paths the run before had saved
SameAudioPaths ==
    LET saved == at_start[OutputFile(last_run.day, SuffixOf(args))]
    IN  /\ script_files[OutputFile(last_run.day, SuffixOf(args))] = saved
        /\ PastParse => script_data.paragraphs = saved.value.paragraphs

\* C22 as stated: with an audio_file_path in the loaded script no TTS
\* request is made and the script JSON file is not rewritten; and a run after
\* a run that generated audio and saved the script makes no TTS request and
\* leaves every audio_file_path unchanged
C22_Original_SecondRunMakesNoTts ==
    /\ LoadedWithAudio => NoTtsNoRewrite
    /\ (run > 1 /\ last_run.saved_audio) =>
         /\ posts = <<>>
         /\ SameAudioPaths

\* C22: with an audio_file_path in the loaded script no TTS request is made
\* and the script JSON file is not rewritten; and a run on the same date
\* after a run that generated audio and saved the script makes no TTS
\* request and leaves every audio_file_path unchanged
C22_SecondRunOnTheDateMakesNoTts ==
    /\ LoadedWithAudio => NoTtsNoRewrite
    /\ (SameDate /\ last_run.saved_audio) =>
         /\ posts = <<>>
         /\ SameAudioPaths

\* the second run on a date, after a run that generated audio: it loads the
\* script with its audio paths, makes no TTS request and goes on to the video
C22_Witness ==
    /\ run = 2
    /\ SameDate
    /\ last_run.saved_audio
    /\ LoadedWithAudio
    /\ script_data.paragraphs[1]["audio_file_path"] = AudioPath(0)
    /\ posts = <<>>
    /\ main_pc = "done"

\* the run the day after a run that generated audio asks the LLM and the TTS
\* again
C22_NextDayAsksAgain ==
    /\ run = 2
    /\ ~SameDate
    /\ last_run.saved_audio
    /\ Asked # {}
    /\ posts # <<>>

===========================================================================
